---- MODULE Spec2Model ----
(***************************************************************************)
(* Model of the lean auth module (nydiokar/starter-kit-auth): the session  *)
(* manager and its guard, the sliding-window rate limiter, the CSRF        *)
(* middleware and the AuthService flows, each under its own specification. *)
(***************************************************************************)
EXTENDS Integers, Sequences, FiniteSets, TLC

(***************************************************************************)
(* Bounds of the model.                                                    *)
(***************************************************************************)
\* number of session ids randomTokenB64url hands out in one behaviour
MaxSessions == 2
\* floor(cfg.cookie.ttlDays * 86400), in model seconds
CfgTtl == 1

\* last instant of the rate limiter's clock (seconds)
MaxTime == 2
\* largest limit and window (seconds) a rate-limit rule is given
MaxLimit == 2
MaxWindow == 2
\* requests in flight at once on one bucket
NumProcs == 3
RaceTime == 1
MaxCallers == 2

Users == {"u1", "u2"}
NoUser == "nouser"
Sids == 1..MaxSessions
NoSid == 0
Faults == {"none", "cache", "db"}

Max(a, b) == IF a >= b THEN a ELSE b
Min(a, b) == IF a <= b THEN a ELSE b

VARIABLES
  \* ---- session manager (SessionService, SessionGuard) ----
  hasPrisma,   \* AUTH_PRISMA is injected (a durable store is configured)
  cache,       \* redis keys sess:<id>, each with its remaining TTL
  durable,     \* prisma.session rows
  isActive,    \* prisma.user.isActive per user
  nextSid,     \* the next fresh session id
  last         \* the last operation, its input and its outcome

sessVars == <<hasPrisma, cache, durable, isActive, nextSid, last>>

VARIABLES
  \* ---- rate limiter (RateLimitGuard) ----
  rlNow,       \* the clock: Math.floor(Date.now() / 1000)
  rules,       \* the RateLimitOptions[] declared on the route
  bucket,      \* redis sorted sets rl:...: how many members carry each score
  bexp,        \* the instant redis drops each bucket key (EXPIRE), 0: no key
  admitted,    \* per bucket, the instants of the checks it admitted in the last MaxWindow seconds
  rlLast,      \* the last request the guard decided, with each rule's outcome
  procs        \* the requests in flight, each at its position in canActivate

rlVars == <<rlNow, rules, bucket, bexp, admitted, rlLast, procs>>

VARIABLES
  \* ---- CSRF middleware (CsrfMiddleware) ----
  csrfLast     \* the last request the middleware saw and what it did with it

csrfVars == <<csrfLast>>

VARIABLES
  \* ---- accounts (AuthService) ----
  disableEmailVerification, \* cfg.emailVerification.disableEmailVerification
  registered,       \* the ids of the prisma.user rows
  emailVerifiedAt,  \* the users whose emailVerifiedAt is set
  password,         \* per user, the password its PasswordCredential hash verifies
  verifyToken,      \* per user, its EmailVerificationToken: "none", "issued", "used"
  resetToken,       \* per user, its PasswordResetToken: "none", "issued", "used"
  loginPc,          \* the login in flight and its position in login()
  resetPc,          \* the reset in flight and its position in resetPassword()
  sessPw,           \* per session, the password its login or registration presented
  resetReturned,    \* the users for whom resetPassword has returned 204
  authLast          \* the last response of AuthService

authVars == <<disableEmailVerification, registered, emailVerifiedAt, password, verifyToken,
              resetToken, loginPc, resetPc, sessPw, resetReturned, authLast>>

VARIABLES
  \* ---- token handlers called concurrently (verifyEmail, resetPassword) ----
  tokPc,       \* per caller, its position in the handler and the token it presented
  tokOk        \* per handler and user, how many calls on the user's token returned 204

tokVars == <<tokPc, tokOk>>

VARIABLES
  \* ---- the rate-limited routes of AuthController ----
  rlRoute,     \* the route and the account of the last request the guard decided
  counted      \* per bucket, the accounts whose requests the bucket has counted

routeVars == <<rlRoute, counted>>

VARIABLES
  \* ---- role-based access (RolesGuard) ----
  hasUserRole, \* the injected prisma client has a userRole delegate
  userRole,    \* per user, the names of the roles of its UserRole rows
  rbacLast     \* the last request RolesGuard decided

rbacVars == <<hasUserRole, userRole, rbacLast>>

VARIABLES
  \* ---- AuthService, one whole call at a time, with its audit sink ----
  sessionBeforeVerification, \* cfg.emailVerification.sessionBeforeVerification
  flowLast     \* the last call of AuthService: its input, its steps and its answer

flowVars == <<sessionBeforeVerification, flowLast>>

VARIABLES
  \* ---- the configured session lifetime ----
  ttlFloor     \* Math.floor(cfg.cookie.ttlDays * 86400), in model seconds

ttlVars == <<ttlFloor>>

VARIABLES
  \* ---- one request on its way through middleware, guards and handler ----
  pipe         \* the request in the pipeline: its route, its position, what has run

pipeVars == <<pipe>>

VARIABLES
  \* ---- SessionGuard interleaved with revokeAll and revoke, one await at a time ----
  gd,          \* the request inside SessionGuard.canActivate
  rv,          \* the call inside SessionService.revokeAll
  rk,          \* the call inside SessionService.revoke
  committed    \* the sessions whose durable row a revoke or revokeAll has deleted

concVars == <<gd, rv, rk, committed>>

vars == <<sessVars, rlVars, csrfVars, authVars, tokVars, routeVars, rbacVars, flowVars, ttlVars, pipeVars, concVars>>

\* what the session manager leaves alone
outSess == <<rlVars, csrfVars, authVars, tokVars, routeVars, rbacVars, flowVars, ttlVars, pipeVars, concVars>>
\* what the rate limiter leaves alone
outRL == <<sessVars, csrfVars, authVars, tokVars, routeVars, rbacVars, flowVars, ttlVars, pipeVars, concVars>>
\* what the CSRF middleware leaves alone
outCsrf == <<sessVars, rlVars, authVars, tokVars, routeVars, rbacVars, flowVars, ttlVars, pipeVars, concVars>>
\* what the account service leaves alone
outAuth == <<rlVars, csrfVars, tokVars, routeVars, rbacVars, flowVars, ttlVars, pipeVars, concVars>>
\* what the concurrent token handlers leave alone
outTok == <<rlVars, csrfVars, routeVars, rbacVars, flowVars, ttlVars, pipeVars, concVars>>
\* what a request on a route leaves alone
outRoute == <<sessVars, csrfVars, authVars, tokVars, rbacVars, flowVars, ttlVars, pipeVars, concVars>>
\* what the roles guard leaves alone
outRbac == <<sessVars, rlVars, csrfVars, authVars, tokVars, routeVars, flowVars, ttlVars, pipeVars, concVars>>
\* what a whole call of AuthService leaves alone
outFlow == <<rlVars, csrfVars, tokVars, routeVars, rbacVars, ttlVars, pipeVars, concVars>>

(***************************************************************************)
(* Session manager: SessionService                                         *)
(***************************************************************************)
\* a cache value: life is the time left until the record's expiresAt, ttl
\* the time left until redis drops the key
NoEntry == [kind |-> "none", userId |-> NoUser, life |-> 0, ttl |-> 0]
\* a durable row: life is the time left until its expiresAt
NoRow == [present |-> FALSE, userId |-> NoUser, life |-> 0, revokedAt |-> FALSE]
Null == [kind |-> "null"]

\* the lifetimes a deployment may configure: from one that floors to no whole
\* second up to one second more than the default of the model
TtlFloors == 0..(CfgTtl + 1)
InitTtl == ttlFloor \in TtlFloors
IdleTtl == ttlFloor = CfgTtl

\* Math.max(1, Math.floor(ttlDays * 86400))
ttlSec == Max(1, ttlFloor)

\* the SessionRecord create() serialises into the cache, set with EX ttlSec
SessionRecord(userId) ==
  [kind |-> "json", userId |-> userId, life |-> ttlSec, ttl |-> ttlSec]

\* a row whose expiresAt lies one second after the expiry of the cache entry
SessionRowLonger(userId) ==
  [present |-> TRUE, userId |-> userId, life |-> ttlSec + 1, revokedAt |-> FALSE]

\* the row create() mirrors into prisma.session
SessionRow(userId) ==
  [present |-> TRUE, userId |-> userId, life |-> ttlSec, revokedAt |-> FALSE]

\* redis GET: an expired key is gone
redisGet(c, sid) == IF c[sid].kind # "none" /\ c[sid].ttl > 0 THEN c[sid] ELSE NoEntry

\* SessionService.get: a missing or unparseable value is null
get(c, sid) ==
  LET raw == redisGet(c, sid) IN
  IF raw.kind = "none" THEN Null
  ELSE IF raw.kind = "garbage" THEN Null
  ELSE raw

\* redis DEL of a set of keys
redisDel(c, ids) == [s \in Sids |-> IF s \in ids THEN NoEntry ELSE c[s]]

\* prisma.session.findMany({ where: { userId } }) -> ids
findManyIds(d, userId) == {s \in Sids : d[s].present /\ d[s].userId = userId}

\* prisma.session.deleteMany({ where: { userId } })
deleteMany(d, userId) == [s \in Sids |-> IF d[s].present /\ d[s].userId = userId THEN NoRow ELSE d[s]]

\* the cache-scan fallback of revokeAll: keys whose value parses and belongs to userId
scanDelKeys(c, userId) ==
  {s \in Sids : redisGet(c, s).kind = "json" /\ redisGet(c, s).userId = userId}

(***************************************************************************)
(* Session guard: SessionGuard.canActivate                                 *)
(***************************************************************************)
\* the body of the try block: "accept", "deny", or "error" when a read throws
guardBody(sid, fault) ==
  IF sid = NoSid THEN "deny"
  ELSE IF fault = "cache" THEN "error"
  ELSE LET rec == get(cache, sid) IN
    IF rec = Null THEN "deny"
    ELSE IF ~hasPrisma THEN "deny"
    ELSE IF fault = "db" THEN "error"
    ELSE LET session == durable[sid] IN
      IF ~session.present \/ session.revokedAt THEN "deny"
      ELSE IF ~isActive[rec.userId] THEN "deny"
      ELSE "accept"

\* the guard without its try/catch: a failing read reaches the caller
canActivateNoCatch(sid, fault) == guardBody(sid, fault)

\* the guard that validates the user only (no durable session read)
canActivateUserOnly(sid, fault) ==
  IF sid = NoSid \/ fault # "none" THEN "deny"
  ELSE LET rec == get(cache, sid) IN
    IF rec = Null \/ ~hasPrisma THEN "deny"
    ELSE IF ~isActive[rec.userId] THEN "deny"
    ELSE "accept"

\* the guard that trusts the cache entry alone when no durable store is injected
canActivateCacheAlone(sid, fault) ==
  IF hasPrisma
  THEN (IF guardBody(sid, fault) = "error" THEN "deny" ELSE guardBody(sid, fault))
  ELSE IF sid = NoSid \/ fault # "none" THEN "deny"
  ELSE IF get(cache, sid) = Null THEN "deny"
  ELSE "accept"

\* try { ... } catch { return false }
canActivate(sid, fault) ==
  IF guardBody(sid, fault) = "error" THEN "deny" ELSE guardBody(sid, fault)

\* resolvePrincipal(sid) returns a principal
Resolvable(sid) == canActivate(sid, "none") = "accept"

\* the id of the principal the guard attaches to the request: req.user.id
resolvePrincipal(sid) ==
  IF canActivate(sid, "none") = "accept" THEN get(cache, sid).userId ELSE NoUser

\* had: the sessions the operation found when it was called
Op(op, sid, uid, fault, result, had) ==
  [op |-> op, sid |-> sid, uid |-> uid, fault |-> fault, result |-> result, had |-> had]
Env == Op("env", NoSid, NoUser, "none", "ok", {})

InitSess ==
  /\ hasPrisma \in BOOLEAN
  /\ cache = [s \in Sids |-> NoEntry]
  /\ durable = [s \in Sids |-> NoRow]
  /\ isActive = [u \in Users |-> TRUE]
  /\ nextSid = 1
  /\ last = Op("init", NoSid, NoUser, "none", "ok", {})

(***************************************************************************)
(* Session manager operations, each the whole method with its fault input: *)
(* "cache" makes the method's redis call reject, "db" its prisma call.     *)
(***************************************************************************)
Out(c, d, result) == [cache |-> c, durable |-> d, result |-> result]

\* create that swallows a failure of the durable write
createBestEffort(sid, userId, fault) ==
  IF fault = "cache" THEN Out(cache, durable, "throw")
  ELSE LET c == [cache EXCEPT ![sid] = SessionRecord(userId)] IN
    IF ~hasPrisma \/ fault = "db" THEN Out(c, durable, "ok")
    ELSE Out(c, [durable EXCEPT ![sid] = SessionRow(userId)], "ok")

\* create that writes the cache entry and never the durable row
createCacheOnly(sid, userId, fault) ==
  IF fault = "cache" THEN Out(cache, durable, "throw")
  ELSE Out([cache EXCEPT ![sid] = SessionRecord(userId)], durable, "ok")

\* SessionService.create(userId, req) with the fresh id sid
create(sid, userId, fault) ==
  IF fault = "cache" THEN Out(cache, durable, "throw")
  ELSE LET c == [cache EXCEPT ![sid] = SessionRecord(userId)] IN
    IF ~hasPrisma THEN Out(c, durable, "ok")
    ELSE IF fault = "db" THEN Out(c, durable, "throw")
    ELSE Out(c, [durable EXCEPT ![sid] = SessionRow(userId)], "ok")

\* revoke without the .catch(() => {}) on the durable delete
revokeNoCatch(sid, fault) ==
  IF fault = "cache" THEN Out(cache, durable, "throw")
  ELSE IF ~hasPrisma THEN Out(redisDel(cache, {sid}), durable, "ok")
  ELSE IF fault = "db" \/ ~durable[sid].present THEN Out(redisDel(cache, {sid}), durable, "throw")
  ELSE Out(redisDel(cache, {sid}), [durable EXCEPT ![sid] = NoRow], "ok")

\* SessionService.revoke(sessionId)
revoke(sid, fault) ==
  IF fault = "cache" THEN Out(cache, durable, "throw")
  ELSE IF ~hasPrisma THEN Out(redisDel(cache, {sid}), durable, "ok")
  ELSE IF fault = "db" THEN Out(redisDel(cache, {sid}), durable, "ok")
  ELSE Out(redisDel(cache, {sid}), [durable EXCEPT ![sid] = NoRow], "ok")

\* revokeAll that drops only the first of the subject's sessions
revokeAllOnlyOne(userId, fault) ==
  LET ids == findManyIds(durable, userId) \cup scanDelKeys(cache, userId) IN
  IF fault # "none" THEN Out(cache, durable, "throw")
  ELSE IF ids = {} THEN Out(cache, durable, "ok")
  ELSE LET one == CHOOSE s \in ids : \A o \in ids : s <= o IN
    Out(redisDel(cache, {one}), [durable EXCEPT ![one] = NoRow], "ok")

\* revokeAll that drops the sessions of every subject
revokeAllEveryone(userId, fault) ==
  IF fault # "none" THEN Out(cache, durable, "throw")
  ELSE Out([s \in Sids |-> NoEntry], [s \in Sids |-> NoRow], "ok")

\* SessionService.revokeAll(userId)
revokeAll(userId, fault) ==
  IF hasPrisma THEN
    IF fault = "db" THEN Out(cache, durable, "throw")
    ELSE LET ids == findManyIds(durable, userId) IN
      IF ids = {} THEN Out(cache, durable, "ok")
      ELSE IF fault = "cache" THEN Out(cache, deleteMany(durable, userId), "throw")
      ELSE Out(redisDel(cache, ids), deleteMany(durable, userId), "ok")
  ELSE
    IF fault = "cache" THEN Out(cache, durable, "throw")
    ELSE Out(redisDel(cache, scanDelKeys(cache, userId)), durable, "ok")

\* the sessions a subject has: its parseable cache entries and its durable rows
SessionsOf(userId) == scanDelKeys(cache, userId) \cup findManyIds(durable, userId)
\* the ids with a cache entry or a durable row
SessionsAt == {s \in Sids : redisGet(cache, s).kind # "none" \/ durable[s].present}

\* the subject a session belongs to: the userId of its durable row, or of its
\* cache record when it has no row
OwnerOf(sid) ==
  IF durable[sid].present THEN durable[sid].userId
  ELSE IF redisGet(cache, sid).kind = "json" THEN redisGet(cache, sid).userId
  ELSE NoUser

\* an id that create() has handed out before
reusedSessionId == IF nextSid > 1 THEN nextSid - 1 ELSE nextSid
\* randomTokenB64url(32): 256 random bits, an id no session has had
randomSessionId == nextSid

Create(userId, fault) ==
  /\ nextSid <= MaxSessions
  /\ LET sessionId == randomSessionId
         r == create(sessionId, userId, fault) IN
       /\ cache' = r.cache
       /\ durable' = r.durable
       /\ nextSid' = IF fault = "cache" THEN nextSid ELSE nextSid + 1
       /\ last' = Op("create", IF r.result = "ok" THEN sessionId ELSE NoSid, userId, fault, r.result, {})
  /\ UNCHANGED <<hasPrisma, isActive>>
  /\ UNCHANGED outSess

Revoke(sid, fault) ==
  /\ LET r == revoke(sid, fault) IN
       /\ cache' = r.cache
       /\ durable' = r.durable
       /\ last' = Op("revoke", sid, NoUser, fault, r.result, {sid} \cap SessionsAt)
  /\ UNCHANGED <<hasPrisma, isActive, nextSid>>
  /\ UNCHANGED outSess

RevokeAll(userId, fault) ==
  /\ LET r == revokeAll(userId, fault) IN
       /\ cache' = r.cache
       /\ durable' = r.durable
       /\ last' = Op("revokeAll", NoSid, userId, fault, r.result, SessionsOf(userId))
  /\ UNCHANGED <<hasPrisma, isActive, nextSid>>
  /\ UNCHANGED outSess

\* SessionService.listForUser(userId): the ids of the entries it returns; the
\* cache-scan fallback parses every value under sess: with a bare JSON.parse,
\* so an unparseable value of any subject makes the call throw
listForUser(userId) ==
  IF hasPrisma THEN [result |-> "ok", ids |-> findManyIds(durable, userId)]
  ELSE IF \E s \in Sids : redisGet(cache, s).kind = "garbage"
  THEN [result |-> "throw", ids |-> {}]
  ELSE [result |-> "ok",
        ids |-> {s \in Sids : redisGet(cache, s).kind = "json" /\ redisGet(cache, s).userId = userId}]

\* the host application calls SessionService.listForUser(userId)
ListForUser(userId) ==
  /\ LET r == listForUser(userId) IN
       last' = Op("listForUser", NoSid, userId, "none", r.result, r.ids)
  /\ UNCHANGED <<hasPrisma, cache, durable, isActive, nextSid>>
  /\ UNCHANGED outSess

\* the host application calls SessionService.get(sessionId)
Get(sid) ==
  /\ LET rec == get(cache, sid) IN
       last' = Op("get", sid, IF rec = Null THEN NoUser ELSE rec.userId, "none", "ok",
                  {sid} \cap SessionsAt)
  /\ UNCHANGED <<hasPrisma, cache, durable, isActive, nextSid>>
  /\ UNCHANGED outSess

\* GET /sessions with the session cookie value sid: SessionGuard, then
\* SessionsController.list
List(sid) ==
  /\ last' = IF canActivate(sid, "none") = "accept"
             THEN Op("list", sid, resolvePrincipal(sid), "none", "ok", listForUser(resolvePrincipal(sid)).ids)
             ELSE Op("list", sid, NoUser, "none", "deny", {})
  /\ UNCHANGED <<hasPrisma, cache, durable, isActive, nextSid>>
  /\ UNCHANGED outSess

\* POST /sessions/:id/revoke with the session cookie value sid: SessionGuard,
\* then SessionsController.revoke, which passes the id of the path to
\* SessionService.revoke
RevokeRoute(sid, id) ==
  /\ LET ok == canActivate(sid, "none") = "accept"
         r == IF ok THEN revoke(id, "none") ELSE Out(cache, durable, "deny")
     IN
       /\ cache' = r.cache
       /\ durable' = r.durable
       /\ last' = Op("revokeRoute", id, resolvePrincipal(sid), "none", r.result, {id} \cap SessionsAt)
  /\ UNCHANGED <<hasPrisma, isActive, nextSid>>
  /\ UNCHANGED outSess

\* a request carrying the session cookie value sid reaches SessionGuard
Guard(sid, fault) ==
  /\ last' = Op("guard", sid, NoUser, fault, canActivate(sid, fault), {})
  /\ UNCHANGED <<hasPrisma, cache, durable, isActive, nextSid>>
  /\ UNCHANGED outSess

(***************************************************************************)
(* The environment of the session manager.                                 *)
(***************************************************************************)
\* a second passes; redis drops the keys whose EX expiry is reached
Tick ==
  /\ \E s \in Sids : cache[s].ttl > 0 \/ durable[s].life > 0
  /\ cache' = [s \in Sids |-> IF cache[s].kind # "none" /\ cache[s].ttl > 1
                              THEN [cache[s] EXCEPT !.ttl = @ - 1, !.life = Max(0, @ - 1)]
                              ELSE NoEntry]
  /\ durable' = [s \in Sids |-> [durable[s] EXCEPT !.life = Max(0, @ - 1)]]
  /\ last' = Env
  /\ UNCHANGED <<hasPrisma, isActive, nextSid>>
  /\ UNCHANGED outSess

\* an operator (de)activates an account: User.isActive
SetActive(userId) ==
  /\ isActive' = [isActive EXCEPT ![userId] = ~isActive[userId]]
  /\ last' = Env
  /\ UNCHANGED <<hasPrisma, cache, durable, nextSid>>
  /\ UNCHANGED outSess

\* the host application stamps Session.revokedAt on a durable row
MarkRevokedAt(sid) ==
  /\ durable[sid].present /\ ~durable[sid].revokedAt
  /\ durable' = [durable EXCEPT ![sid].revokedAt = TRUE]
  /\ last' = Env
  /\ UNCHANGED <<hasPrisma, cache, isActive, nextSid>>
  /\ UNCHANGED outSess

\* the cached value of a session becomes unparseable
CorruptCache(sid) ==
  /\ cache[sid].kind = "json"
  /\ cache' = [cache EXCEPT ![sid].kind = "garbage", ![sid].userId = NoUser]
  /\ last' = Env
  /\ UNCHANGED <<hasPrisma, durable, isActive, nextSid>>
  /\ UNCHANGED outSess

\* the session manager when redis and prisma answer every call
NextSess ==
  \/ \E u \in Users : Create(u, "none")
  \/ \E s \in Sids : Revoke(s, "none")
  \/ \E u \in Users : RevokeAll(u, "none")
  \/ \E s \in Sids \cup {NoSid} : Guard(s, "none")
  \/ \E s \in Sids \cup {NoSid} : List(s)
  \/ Tick
  \/ \E u \in Users : SetActive(u)
  \/ \E s \in Sids : MarkRevokedAt(s)
  \/ \E s \in Sids : CorruptCache(s)

\* the session manager with the calls of the host application and the
\* revoke route beside it
NextSessApi ==
  \/ NextSess
  \/ \E u \in Users : ListForUser(u)
  \/ \E s \in Sids \cup {NoSid}, id \in Sids : RevokeRoute(s, id)
  \/ \E s \in Sids : Get(s)

\* the session manager when any redis or prisma call may fail
NextFault ==
  \/ \E u \in Users, f \in Faults : Create(u, f)
  \/ \E s \in Sids, f \in Faults : Revoke(s, f)
  \/ \E u \in Users, f \in Faults : RevokeAll(u, f)
  \/ \E s \in Sids \cup {NoSid}, f \in Faults : Guard(s, f)
  \/ Tick
  \/ \E s \in Sids : CorruptCache(s)

(***************************************************************************)
(* Rate limiter: RateLimitGuard over redis sorted sets                     *)
(***************************************************************************)
Times == 0..MaxTime
Ips == {"ip1"}
Emails == {"a", "A", "b"}
\* String.prototype.toLowerCase on the model's e-mail addresses
toLowerCase(e) == IF e = "A" THEN "a" ELSE e

\* bucket = r.by === 'ip' ? `rl:ip:${ip}:${r.key}` : `rl:acct:${email.toLowerCase()}:${r.key}`
bucketOf(r, ip, email) ==
  IF r.by = "ip" THEN <<"rl:ip", ip, r.key>> ELSE <<"rl:acct", toLowerCase(email), r.key>>

\* the action keys of the account rules AuthController declares beside 'login'
TokenKeys == {"verify", "reset"}
Buckets ==
  {<<"rl:ip", i, "login">> : i \in Ips} \cup {<<"rl:acct", toLowerCase(e), "login">> : e \in Emails}
    \cup {<<"rl:acct", e, k>> : e \in {"", "a", "b"}, k \in TokenKeys}

\* RateLimitOptions the model declares on a route: an account rule of any
\* limit and window behind an ip rule with the largest limit and a short window
AccountRules ==
  {[key |-> "login", limit |-> l, windowSec |-> w, by |-> "account"] : l \in 0..MaxLimit, w \in 1..MaxWindow}
IpRules == {[key |-> "login", limit |-> MaxLimit, windowSec |-> 1, by |-> "ip"]}

EmptySet == [t \in Times |-> 0]

RECURSIVE SumTo(_, _)
SumTo(zset, n) == IF n < 0 THEN 0 ELSE zset[n] + SumTo(zset, n - 1)

\* ZCARD
zcard(zset) == SumTo(zset, MaxTime)
\* ZREMRANGEBYSCORE key lo hi: both ends inclusive
zremrangebyscore(zset, lo, hi) == [t \in Times |-> IF lo <= t /\ t <= hi THEN 0 ELSE zset[t]]
\* ZADD key score member, the member being fresh
zadd(zset, score) == [zset EXCEPT ![score] = @ + 1]
\* ZRANGE key 0 0 WITHSCORES: the smallest score, or none (-1) on an empty set
zrangeFirstScore(zset) ==
  IF zcard(zset) = 0 THEN -1
  ELSE CHOOSE t \in Times : zset[t] > 0 /\ \A o \in Times : zset[o] > 0 => t <= o

\* the Retry-After value without its floor of one second
retryAfterNoFloor(zset, r, t) ==
  LET first == zrangeFirstScore(zset)
      oldest == IF first = -1 THEN t ELSE first
  IN r.windowSec - (t - oldest)

\* oldest = Number(res?.[1] || now); Math.max(1, r.windowSec - (now - oldest))
retryAfter(zset, r, t) ==
  LET first == zrangeFirstScore(zset)
      oldest == IF first = -1 THEN t ELSE first
  IN Max(1, r.windowSec - (t - oldest))

\* redis removes a sorted set that has become empty, and with it its expiry
keyExpiry(zset, e) == IF zcard(zset) = 0 THEN 0 ELSE e

Checked(bk, be, outcome, ra) == [bucket |-> bk, bexp |-> be, outcome |-> outcome, retryAfter |-> ra]

\* one rule that also rejects when a bucket of the other kind for the same
\* action is full
checkRuleSharedQuota(bk, be, r, b, t) ==
  LET pruned == zremrangebyscore(bk[b], 0, t - r.windowSec)
      otherFull == \E o \in DOMAIN bk : o[1] # b[1] /\ o[3] = b[3] /\ zcard(bk[o]) >= r.limit
  IN
  IF zcard(pruned) >= r.limit \/ otherFull
  THEN Checked([bk EXCEPT ![b] = pruned], [be EXCEPT ![b] = keyExpiry(pruned, @)],
               "reject", retryAfter(pruned, r, t))
  ELSE Checked([bk EXCEPT ![b] = zadd(pruned, t)], [be EXCEPT ![b] = t + r.windowSec], "admit", 0)

\* one rule whose prune keeps the entries timestamped exactly windowStart
checkRuleStrictPrune(bk, be, r, b, t) ==
  LET pruned == zremrangebyscore(bk[b], 0, t - r.windowSec - 1) IN
  IF zcard(pruned) >= r.limit
  THEN Checked([bk EXCEPT ![b] = pruned], [be EXCEPT ![b] = keyExpiry(pruned, @)],
               "reject", retryAfter(pruned, r, t))
  ELSE Checked([bk EXCEPT ![b] = zadd(pruned, t)], [be EXCEPT ![b] = t + r.windowSec], "admit", 0)

\* one rule admitting while count <= limit
checkRuleOffByOne(bk, be, r, b, t) ==
  LET pruned == zremrangebyscore(bk[b], 0, t - r.windowSec) IN
  IF zcard(pruned) > r.limit
  THEN Checked([bk EXCEPT ![b] = pruned], [be EXCEPT ![b] = keyExpiry(pruned, @)],
               "reject", retryAfter(pruned, r, t))
  ELSE Checked([bk EXCEPT ![b] = zadd(pruned, t)], [be EXCEPT ![b] = t + r.windowSec], "admit", 0)

\* one rule that counts the rejected check in its bucket and renews the expiry
checkRuleCountsRejected(bk, be, r, b, t) ==
  LET pruned == zremrangebyscore(bk[b], 0, t - r.windowSec) IN
  IF zcard(pruned) >= r.limit
  THEN Checked([bk EXCEPT ![b] = zadd(pruned, t)], [be EXCEPT ![b] = t + r.windowSec],
               "reject", retryAfter(zadd(pruned, t), r, t))
  ELSE Checked([bk EXCEPT ![b] = zadd(pruned, t)], [be EXCEPT ![b] = t + r.windowSec], "admit", 0)

\* the body of the loop of canActivate for one rule r on bucket b at now = t
checkRule(bk, be, r, b, t) ==
  LET pruned == zremrangebyscore(bk[b], 0, t - r.windowSec) IN
  IF zcard(pruned) >= r.limit
  THEN Checked([bk EXCEPT ![b] = pruned], [be EXCEPT ![b] = keyExpiry(pruned, @)],
               "reject", retryAfter(pruned, r, t))
  ELSE Checked([bk EXCEPT ![b] = zadd(pruned, t)], [be EXCEPT ![b] = t + r.windowSec], "admit", 0)

Decided(bk, be, outs, status, ra) ==
  [bucket |-> bk, bexp |-> be, outs |-> outs, status |-> status, retryAfter |-> ra]

\* outs padded with "skipped" for the rules the loop never reached
Pad(outs) == outs \o [i \in 1..(Len(rules) - Len(outs)) |-> "skipped"]

\* a loop that keeps going after a rejection and answers with the last rule's outcome
RECURSIVE evalRulesLastWins(_, _, _, _, _, _, _)
evalRulesLastWins(i, bk, be, outs, ip, email, t) ==
  LET c == checkRule(bk, be, rules[i], bucketOf(rules[i], ip, email), t) IN
  IF i = Len(rules)
  THEN Decided(c.bucket, c.bexp, Append(outs, c.outcome),
               IF c.outcome = "reject" THEN 429 ELSE 200, c.retryAfter)
  ELSE evalRulesLastWins(i + 1, c.bucket, c.bexp, Append(outs, c.outcome), ip, email, t)

\* for (const r of rules) { ... throw on the first rejection ... } return true
RECURSIVE evalRules(_, _, _, _, _, _, _)
evalRules(i, bk, be, outs, ip, email, t) ==
  IF i > Len(rules) THEN Decided(bk, be, outs, 200, 0)
  ELSE LET c == checkRule(bk, be, rules[i], bucketOf(rules[i], ip, email), t) IN
    IF c.outcome = "reject"
    THEN Decided(c.bucket, c.bexp, Pad(Append(outs, "reject")), 429, c.retryAfter)
    ELSE evalRules(i + 1, c.bucket, c.bexp, Append(outs, "admit"), ip, email, t)

\* how many checks the bucket admitted after instant ws
admittedSince(b, ws) == zcard(zremrangebyscore(admitted[b], 0, ws))

\* the oldest instant after ws at which the bucket admitted a check, -1: none
admittedOldestSince(b, ws) == zrangeFirstScore(zremrangebyscore(admitted[b], 0, ws))

\* how many entries of bucket b carry exactly the score ws
entriesAt(b, ws) == IF ws \in Times THEN bucket[b][ws] ELSE 0

NoRequest == [ip |-> "", email |-> "", t |-> 0, outs |-> <<>>, status |-> 0, retryAfter |-> 0,
              pre |-> <<>>, preOldest |-> <<>>, atStart |-> <<>>]

InitRL ==
  /\ rlNow = 0
  /\ rules \in {<<i, a>> : i \in IpRules, a \in AccountRules}
  /\ bucket = [b \in Buckets |-> EmptySet]
  /\ bexp = [b \in Buckets |-> 0]
  /\ admitted = [b \in Buckets |-> EmptySet]
  /\ rlLast = NoRequest
  /\ procs = <<>>

\* the rate limiter at rest, for the specifications that do not exercise it
IdleRL ==
  /\ rlNow = 0
  /\ rules = <<>>
  /\ bucket = [b \in Buckets |-> EmptySet]
  /\ bexp = [b \in Buckets |-> 0]
  /\ admitted = [b \in Buckets |-> EmptySet]
  /\ rlLast = NoRequest
  /\ procs = <<>>

\* RateLimitGuard.canActivate for one request, start to end
Request(ip, email) ==
  /\ \E d \in {evalRules(1, bucket, bexp, <<>>, ip, email, rlNow)} :
        /\ bucket' = d.bucket
        /\ bexp' = d.bexp
        /\ admitted' = [b \in Buckets |->
                          IF \E i \in 1..Len(rules) : d.outs[i] = "admit" /\ bucketOf(rules[i], ip, email) = b
                          THEN zadd(admitted[b], rlNow) ELSE admitted[b]]
        /\ rlLast' = [ip |-> ip, email |-> email, t |-> rlNow, outs |-> d.outs,
                      status |-> d.status, retryAfter |-> d.retryAfter,
                      pre |-> [i \in 1..Len(rules) |->
                                 admittedSince(bucketOf(rules[i], ip, email), rlNow - rules[i].windowSec)],
                      preOldest |-> [i \in 1..Len(rules) |->
                                 admittedOldestSince(bucketOf(rules[i], ip, email), rlNow - rules[i].windowSec)],
                      atStart |-> [i \in 1..Len(rules) |->
                                 entriesAt(bucketOf(rules[i], ip, email), rlNow - rules[i].windowSec)]]
  /\ UNCHANGED <<rlNow, rules, procs>>
  /\ UNCHANGED outRL

\* the redis commands of one rule check, in the order the guard issues them
RedisCommands == {"zremrangebyscore", "zcard", "zrange", "zadd", "expire"}

\* a guard that lets the request through when a redis command has failed
propagateAsAllow(c) == [c EXCEPT !.outcome = IF @ = "error" THEN "admit" ELSE @]
\* canActivate has no try/catch: a rejected redis command rejects canActivate
propagate(c) == c

\* one rule check during which the redis command failAt rejects when issued
checkRuleFaulty(bk, be, r, b, t, failAt) ==
  LET pruned == zremrangebyscore(bk[b], 0, t - r.windowSec)
      bk1 == [bk EXCEPT ![b] = pruned]
      be1 == [be EXCEPT ![b] = keyExpiry(pruned, @)]
  IN
  IF failAt = "none" THEN checkRule(bk, be, r, b, t)
  ELSE IF failAt = "zremrangebyscore" THEN propagate(Checked(bk, be, "error", 0))
  ELSE IF failAt = "zcard" THEN propagate(Checked(bk1, be1, "error", 0))
  ELSE IF zcard(pruned) >= r.limit
  THEN (IF failAt = "zrange" THEN propagate(Checked(bk1, be1, "error", 0))
        ELSE Checked(bk1, be1, "reject", retryAfter(pruned, r, t)))
  ELSE IF failAt = "zadd" THEN propagate(Checked(bk1, be1, "error", 0))
  ELSE IF failAt = "expire"
  THEN propagate(Checked([bk EXCEPT ![b] = zadd(pruned, t)],
                         [be1 EXCEPT ![b] = IF @ = 0 THEN MaxTime + 1 ELSE @], "error", 0))
  ELSE checkRule(bk, be, r, b, t)

\* the loop over the rules when the command failAt fails: the exception leaves
\* canActivate and the framework answers 500 without calling the handler
RECURSIVE evalRulesFaulty(_, _, _, _, _, _, _, _)
evalRulesFaulty(i, bk, be, outs, ip, email, t, failAt) ==
  IF i > Len(rules) THEN Decided(bk, be, outs, 200, 0)
  ELSE LET c == checkRuleFaulty(bk, be, rules[i], bucketOf(rules[i], ip, email), t, failAt) IN
    IF c.outcome = "error"
    THEN Decided(c.bucket, c.bexp, Pad(Append(outs, "error")), 500, 0)
    ELSE IF c.outcome = "reject"
    THEN Decided(c.bucket, c.bexp, Pad(Append(outs, "reject")), 429, c.retryAfter)
    ELSE evalRulesFaulty(i + 1, c.bucket, c.bexp, Append(outs, "admit"), ip, email, t, failAt)

\* a request reaches the guard while the redis command failAt fails
RequestFaulty(ip, email, failAt) ==
  /\ \E d \in {evalRulesFaulty(1, bucket, bexp, <<>>, ip, email, rlNow, failAt)} :
        /\ bucket' = d.bucket
        /\ bexp' = d.bexp
        /\ admitted' = [b \in Buckets |->
                          IF \E i \in 1..Len(rules) : d.outs[i] = "admit" /\ bucketOf(rules[i], ip, email) = b
                          THEN zadd(admitted[b], rlNow) ELSE admitted[b]]
        /\ rlLast' = [ip |-> ip, email |-> email, t |-> rlNow, outs |-> d.outs,
                      status |-> d.status, retryAfter |-> d.retryAfter,
                      pre |-> [i \in 1..Len(rules) |->
                                 zcard(zremrangebyscore(bucket[bucketOf(rules[i], ip, email)],
                                                        0, rlNow - rules[i].windowSec))],
                      failAt |-> failAt]
  /\ UNCHANGED <<rlNow, rules, procs>>
  /\ UNCHANGED outRL

\* a second passes; redis drops the bucket keys whose EXPIRE is reached
TickTo(maxT) ==
  /\ rlNow < maxT
  /\ rlNow' = rlNow + 1
  /\ bucket' = [b \in Buckets |-> IF bexp[b] # 0 /\ bexp[b] <= rlNow + 1 THEN EmptySet ELSE bucket[b]]
  /\ bexp' = [b \in Buckets |-> IF bexp[b] # 0 /\ bexp[b] <= rlNow + 1 THEN 0 ELSE bexp[b]]
  /\ admitted' = [b \in Buckets |-> zremrangebyscore(admitted[b], 0, rlNow + 1 - MaxWindow)]
  /\ UNCHANGED <<rules, rlLast, procs>>
  /\ UNCHANGED outRL

TickRL == TickTo(MaxTime)

NextRL ==
  \/ \E ip \in Ips, email \in Emails : Request(ip, email)
  \/ TickRL

NextRLFaulty ==
  \/ \E ip \in Ips, email \in Emails, c \in RedisCommands \cup {"none"} : RequestFaulty(ip, email, c)
  \/ TickRL

(***************************************************************************)
(* RateLimitGuard.canActivate one redis command at a time, for requests    *)
(* that are in flight together.                                            *)
(***************************************************************************)
Procs == 1..NumProcs
IdleProc == [pc |-> "idle", i |-> 0, now |-> 0, ip |-> "", email |-> ""]

InitRace ==
  /\ rlNow = 0
  /\ rules \in {<<a>> : a \in {r \in AccountRules : r.limit >= 1}}
  /\ bucket = [b \in Buckets |-> EmptySet]
  /\ bexp = [b \in Buckets |-> 0]
  /\ admitted = [b \in Buckets |-> EmptySet]
  /\ rlLast = NoRequest
  /\ procs = [p \in Procs |-> IdleProc]

ProcBucket(p) == bucketOf(rules[procs[p].i], procs[p].ip, procs[p].email)

\* the guard is entered: rules is not empty, ip and email are read off the request
Begin(p, ip, email) ==
  /\ procs[p].pc = "idle"
  /\ Len(rules) > 0
  /\ procs' = [procs EXCEPT ![p] = [pc |-> "prune", i |-> 1, now |-> 0, ip |-> ip, email |-> email]]
  /\ UNCHANGED <<rlNow, rules, bucket, bexp, admitted, rlLast>>
  /\ UNCHANGED outRL

\* now = Math.floor(Date.now() / 1000); zremrangebyscore(bucket, 0, now - r.windowSec)
Prune(p) ==
  /\ procs[p].pc = "prune"
  /\ \E b \in {ProcBucket(p)}, pruned \in {zremrangebyscore(bucket[ProcBucket(p)], 0, rlNow - rules[procs[p].i].windowSec)} :
       /\ bucket' = [bucket EXCEPT ![b] = pruned]
       /\ bexp' = [bexp EXCEPT ![b] = keyExpiry(pruned, @)]
  /\ procs' = [procs EXCEPT ![p].pc = "count", ![p].now = rlNow]
  /\ UNCHANGED <<rlNow, rules, admitted, rlLast>>
  /\ UNCHANGED outRL

\* the count a deciding request compares with the limit
countRejectsOffByOne(count, limit) == count > limit
countRejects(count, limit) == count >= limit

\* count = zcard(bucket); if (count >= r.limit) the request is going to be rejected
Count(p) ==
  /\ procs[p].pc = "count"
  /\ \E r \in {rules[procs[p].i]}, count \in {zcard(bucket[ProcBucket(p)])} :
       IF countRejects(count, r.limit)
       THEN /\ procs' = [procs EXCEPT ![p].pc = "range"]
            /\ rlLast' = [ip |-> procs[p].ip, email |-> procs[p].email, t |-> procs[p].now,
                          outs |-> Pad([j \in 1..procs[p].i |-> IF j = procs[p].i THEN "reject" ELSE "admit"]),
                          status |-> 429, retryAfter |-> -1,
                          pre |-> <<count>>,
                          preOldest |-> <<zcard(zremrangebyscore(bucket[ProcBucket(p)], 0, rlNow - r.windowSec))>>,
                          atStart |-> <<0>>]
       ELSE /\ procs' = [procs EXCEPT ![p].pc = "zadd"]
            /\ UNCHANGED rlLast
  /\ UNCHANGED <<rlNow, rules, bucket, bexp, admitted>>
  /\ UNCHANGED outRL

\* zrange(bucket, 0, 0, 'WITHSCORES'), the Retry-After header, throw 429
Range(p) ==
  /\ procs[p].pc = "range"
  /\ rlLast' = [rlLast EXCEPT !.t = procs[p].now,
                               !.retryAfter = retryAfter(bucket[ProcBucket(p)], rules[procs[p].i], procs[p].now)]
  /\ procs' = [procs EXCEPT ![p] = IdleProc]
  /\ UNCHANGED <<rlNow, rules, bucket, bexp, admitted>>
  /\ UNCHANGED outRL

\* zadd(bucket, now, `${now}:${Math.random()}`)
Zadd(p) ==
  /\ procs[p].pc = "zadd"
  /\ bucket' = [bucket EXCEPT ![ProcBucket(p)] = zadd(@, procs[p].now)]
  /\ bexp' = [bexp EXCEPT ![ProcBucket(p)] = IF @ = 0 THEN MaxTime + 1 ELSE @]
  /\ procs' = [procs EXCEPT ![p].pc = "expire"]
  /\ UNCHANGED <<rlNow, rules, admitted, rlLast>>
  /\ UNCHANGED outRL

\* expire(bucket, r.windowSec), then the next rule, or return true after the last
Expire(p) ==
  /\ procs[p].pc = "expire"
  /\ bexp' = [bexp EXCEPT ![ProcBucket(p)] = rlNow + rules[procs[p].i].windowSec]
  /\ procs' = [procs EXCEPT ![p] = IF procs[p].i < Len(rules)
                                   THEN [@ EXCEPT !.pc = "prune", !.i = @ + 1]
                                   ELSE IdleProc]
  /\ UNCHANGED <<rlNow, rules, bucket, admitted, rlLast>>
  /\ UNCHANGED outRL

TickRace == TickTo(RaceTime)

NextRace ==
  \/ \E p \in Procs : Begin(p, "ip1", "a")
  \/ \E p \in Procs : Prune(p)
  \/ \E p \in Procs : Count(p)
  \/ \E p \in Procs : Range(p)
  \/ \E p \in Procs : Zadd(p)
  \/ \E p \in Procs : Expire(p)
  \/ TickRace

(***************************************************************************)
(* CSRF: CsrfMiddleware.use over the parsed cookies and the request header *)
(***************************************************************************)
\* a cookie or header the request does not carry (undefined after parse)
Absent == "absent"
Methods == {"GET", "HEAD", "OPTIONS", "POST", "PUT", "PATCH", "DELETE", "post"}
\* the value of a cookie or of the header: not sent, sent empty, or a token
Values == {Absent, "", "t1", "t2"}
SessionCookies == {Absent, "", "s1"}

toUpperCase(m) == IF m = "post" THEN "POST" ELSE m
\* JavaScript truthiness of a string | undefined
Truthy(v) == v \notin {Absent, ""}
Mutating == {"POST", "PUT", "PATCH", "DELETE"}

CsrfResponse(status, next, setCookie) == [status |-> status, next |-> next, setCookie |-> setCookie]

\* use() that issues a CSRF cookie on every GET
useRotateOnGet(method, sessionCookie, csrf, xCsrfToken) ==
  LET m == toUpperCase(method)
      header == IF Truthy(xCsrfToken) THEN xCsrfToken ELSE "" IN
  IF m = "GET" THEN CsrfResponse(0, TRUE, TRUE)
  ELSE IF Truthy(sessionCookie) /\ m \in Mutating
          /\ (~Truthy(csrf) \/ ~Truthy(header) \/ header # csrf)
       THEN CsrfResponse(403, FALSE, FALSE)
  ELSE CsrfResponse(0, TRUE, FALSE)

\* use() that compares header and cookie without asking that either is set
useNoPresence(method, sessionCookie, csrf, xCsrfToken) ==
  LET m == toUpperCase(method)
      header == IF Truthy(xCsrfToken) THEN xCsrfToken ELSE "" IN
  IF m = "GET" /\ ~Truthy(csrf) THEN CsrfResponse(0, TRUE, TRUE)
  ELSE IF Truthy(sessionCookie) /\ m \in Mutating
          /\ header # (IF csrf = Absent THEN "" ELSE csrf)
       THEN CsrfResponse(403, FALSE, FALSE)
  ELSE CsrfResponse(0, TRUE, FALSE)

\* CsrfMiddleware.use(req, res, next)
use(method, sessionCookie, csrf, xCsrfToken) ==
  LET m == toUpperCase(method)
      hasSession == Truthy(sessionCookie)
      header == IF Truthy(xCsrfToken) THEN xCsrfToken ELSE "" IN
  IF m = "GET" /\ ~Truthy(csrf) THEN CsrfResponse(0, TRUE, TRUE)
  ELSE IF hasSession /\ m \in Mutating
          /\ (~Truthy(csrf) \/ ~Truthy(header) \/ header # csrf)
       THEN CsrfResponse(403, FALSE, FALSE)
  ELSE CsrfResponse(0, TRUE, FALSE)

NoCsrfRequest == [method |-> "", sessionCookie |-> Absent, csrf |-> Absent, header |-> Absent,
                  res |-> CsrfResponse(0, FALSE, FALSE)]

IdleCsrf == csrfLast = NoCsrfRequest

Use(method, sessionCookie, csrf, xCsrfToken) ==
  /\ csrfLast' = [method |-> method, sessionCookie |-> sessionCookie, csrf |-> csrf,
                  header |-> xCsrfToken, res |-> use(method, sessionCookie, csrf, xCsrfToken)]
  /\ UNCHANGED outCsrf

NextCsrf ==
  \E m \in Methods, sc \in SessionCookies, c \in Values, h \in Values : Use(m, sc, c, h)

(***************************************************************************)
(* Accounts: AuthService over prisma and the session manager               *)
(***************************************************************************)
Passwords == {"old", "new", "bad"}
AuthEmails == {"u1", "U1 ", "u2"}
\* email.trim().toLowerCase()
normalize(email) == IF email = "U1 " THEN "u1" ELSE email
\* prisma.user.findUnique({ where: { email } }): the user's id is its email
findUnique(email) == IF email \in registered THEN email ELSE NoUser
\* verifyPassword(cred?.hash || DUMMY_HASH, password, pepper)
verifyPassword(user, pw) == user # NoUser /\ password[user] = pw

\* a response, with what the handler had found: whether the email matched a user
\* and whether the password verified
Response(op, email, pw, status, body) ==
  [op |-> op, email |-> email, pw |-> pw, status |-> status, body |-> body,
   known |-> FALSE, ok |-> FALSE]
LoginResponse(email, pw, known, ok, status, body) ==
  [Response("login", email, pw, status, body) EXCEPT !.known = known, !.ok = ok]
NoResponse == Response("none", "", "", 0, "")
IdleLogin == [pc |-> "idle", userId |-> NoUser, email |-> "", pw |-> ""]
IdleReset == [pc |-> "idle", userId |-> NoUser]

InitAuth ==
  /\ disableEmailVerification \in BOOLEAN
  /\ registered = {}
  /\ emailVerifiedAt = {}
  /\ password = [u \in Users |-> "none"]
  /\ verifyToken = [u \in Users |-> "none"]
  /\ resetToken = [u \in Users |-> "none"]
  /\ loginPc = IdleLogin
  /\ resetPc = IdleReset
  /\ sessPw = [s \in Sids |-> "none"]
  /\ resetReturned = {}
  /\ authLast = NoResponse

IdleAuth == InitAuth /\ ~disableEmailVerification

\* a registration that opens a session whatever the configuration
requiresVerificationNever == FALSE
\* const requiresVerification = !disableVerification && !sessionBeforeVerification
requiresVerification == ~disableEmailVerification /\ ~sessionBeforeVerification

\* AuthService.register(email, password): autoSendOnRegister at its default
Register(email, pw) ==
  LET normalized == normalize(email)
      exists == findUnique(normalized) IN
  /\ IF exists # NoUser
     THEN /\ authLast' = Response("register", email, pw, 400, "Invalid credentials")
          /\ UNCHANGED <<registered, password, verifyToken, cache, durable, nextSid, sessPw>>
     ELSE /\ registered' = registered \cup {normalized}
          /\ password' = [password EXCEPT ![normalized] = pw]
          /\ verifyToken' = [verifyToken EXCEPT ![normalized] =
                               IF disableEmailVerification THEN @ ELSE "issued"]
          /\ IF requiresVerification
             THEN /\ authLast' = Response("register", email, pw, 202, "requiresVerification")
                  /\ UNCHANGED <<cache, durable, nextSid, sessPw>>
             ELSE /\ nextSid <= MaxSessions
                  /\ \E r \in {create(nextSid, normalized, "none")} :
                       /\ cache' = r.cache
                       /\ durable' = r.durable
                  /\ nextSid' = nextSid + 1
                  /\ sessPw' = [sessPw EXCEPT ![nextSid] = pw]
                  /\ authLast' = Response("register", email, pw, 201, "session")
  /\ last' = Env
  /\ UNCHANGED <<hasPrisma, isActive, disableEmailVerification, emailVerifiedAt, resetToken,
                 loginPc, resetPc, resetReturned>>
  /\ UNCHANGED outAuth

\* AuthService.verifyEmail(token) with the token mailed to user u, or one that is
\* not in the table, used already or never issued
VerifyEmail(u) ==
  /\ IF verifyToken[u] # "issued"
     THEN /\ authLast' = Response("verifyEmail", u, "", 400, "Invalid token")
          /\ UNCHANGED <<emailVerifiedAt, verifyToken, cache, durable, nextSid, sessPw>>
     ELSE /\ emailVerifiedAt' = emailVerifiedAt \cup {u}
          /\ verifyToken' = [verifyToken EXCEPT ![u] = "used"]
          /\ IF ~disableEmailVerification /\ findUnique(u) # NoUser
             THEN /\ nextSid <= MaxSessions
                  /\ \E r \in {create(nextSid, u, "none")} :
                       /\ cache' = r.cache
                       /\ durable' = r.durable
                  /\ nextSid' = nextSid + 1
                  /\ sessPw' = [sessPw EXCEPT ![nextSid] = "token"]
             ELSE UNCHANGED <<cache, durable, nextSid, sessPw>>
          /\ authLast' = Response("verifyEmail", u, "", 204, "")
  /\ last' = Env
  /\ UNCHANGED <<hasPrisma, isActive, disableEmailVerification, registered, password, resetToken,
                 loginPc, resetPc, resetReturned>>
  /\ UNCHANGED outAuth

\* what login() answers once the user, the credential and the password are looked
\* up and verified; "create" when it goes on to open a session
loginDecision(email, pw) ==
  LET user == findUnique(normalize(email))
      ok == verifyPassword(user, pw) IN
  IF ~disableEmailVerification /\ user # NoUser /\ user \notin emailVerifiedAt
  THEN LoginResponse(email, pw, user # NoUser, ok, 403, "Email verification required")
  ELSE IF user = NoUser \/ ~ok \/ ~isActive[user]
  THEN LoginResponse(email, pw, user # NoUser, ok, 401, "Invalid credentials")
  ELSE LoginResponse(email, pw, user # NoUser, ok, 200, "create")

\* login(): findUnique user, findUnique credential, verifyPassword, the two
\* failure returns
LoginVerify(email, pw) ==
  /\ loginPc.pc = "idle"
  /\ \E d \in {loginDecision(email, pw)} :
       IF d.status = 200
       THEN /\ loginPc' = [pc |-> "create", userId |-> findUnique(normalize(email)),
                           email |-> email, pw |-> pw]
            /\ UNCHANGED authLast
       ELSE /\ authLast' = d
            /\ UNCHANGED loginPc
  /\ last' = Env
  /\ UNCHANGED <<hasPrisma, cache, durable, isActive, nextSid>>
  /\ UNCHANGED <<disableEmailVerification, registered, emailVerifiedAt, password, verifyToken,
                 resetToken, resetPc, sessPw, resetReturned>>
  /\ UNCHANGED outAuth

\* login(): sessions.create(user.id, req), the cookie, the 200
LoginCreate ==
  /\ loginPc.pc = "create"
  /\ nextSid <= MaxSessions
  /\ \E r \in {create(nextSid, loginPc.userId, "none")} :
       /\ cache' = r.cache
       /\ durable' = r.durable
  /\ nextSid' = nextSid + 1
  /\ sessPw' = [sessPw EXCEPT ![nextSid] = loginPc.pw]
  /\ authLast' = LoginResponse(loginPc.email, loginPc.pw, TRUE, TRUE, 200, "session")
  /\ loginPc' = IdleLogin
  /\ last' = Env
  /\ UNCHANGED <<hasPrisma, isActive>>
  /\ UNCHANGED <<disableEmailVerification, registered, emailVerifiedAt, password, verifyToken,
                 resetToken, resetPc, resetReturned>>
  /\ UNCHANGED outAuth

\* AuthService.requestReset(email); one reset token per user is followed
RequestReset(email) ==
  LET user == findUnique(normalize(email)) IN
  /\ user # NoUser => resetToken[user] = "none"
  /\ resetToken' = IF user # NoUser THEN [resetToken EXCEPT ![user] = "issued"] ELSE resetToken
  /\ authLast' = Response("requestReset", email, "", 204, "")
  /\ last' = Env
  /\ UNCHANGED <<hasPrisma, cache, durable, isActive, nextSid>>
  /\ UNCHANGED <<disableEmailVerification, registered, emailVerifiedAt, password, verifyToken,
                 loginPc, resetPc, sessPw, resetReturned>>
  /\ UNCHANGED outAuth

\* resetPassword(): passwordResetToken.findUnique with the token mailed to u
ResetFind(u) ==
  /\ resetPc.pc = "idle"
  /\ IF resetToken[u] # "issued"
     THEN /\ authLast' = Response("resetPassword", u, "new", 400, "Invalid token")
          /\ UNCHANGED resetPc
     ELSE /\ resetPc' = [pc |-> "tx", userId |-> u]
          /\ UNCHANGED authLast
  /\ last' = Env
  /\ UNCHANGED <<hasPrisma, cache, durable, isActive, nextSid>>
  /\ UNCHANGED <<disableEmailVerification, registered, emailVerifiedAt, password, verifyToken,
                 resetToken, loginPc, sessPw, resetReturned>>
  /\ UNCHANGED outAuth

\* resetPassword(): $transaction([credential upsert, token usedAt, session.deleteMany])
ResetTx ==
  /\ resetPc.pc = "tx"
  /\ password' = [password EXCEPT ![resetPc.userId] = "new"]
  /\ resetToken' = [resetToken EXCEPT ![resetPc.userId] = "used"]
  /\ durable' = deleteMany(durable, resetPc.userId)
  /\ resetPc' = [resetPc EXCEPT !.pc = "revokeAll"]
  /\ last' = Env
  /\ UNCHANGED <<hasPrisma, cache, isActive, nextSid>>
  /\ UNCHANGED <<disableEmailVerification, registered, emailVerifiedAt, verifyToken,
                 loginPc, sessPw, resetReturned, authLast>>
  /\ UNCHANGED outAuth

\* resetPassword(): sessions.revokeAll(rec.userId), the audit record, the 204
ResetRevokeAll ==
  /\ resetPc.pc = "revokeAll"
  /\ \E r \in {revokeAll(resetPc.userId, "none")} :
       /\ cache' = r.cache
       /\ durable' = r.durable
  /\ resetReturned' = resetReturned \cup {resetPc.userId}
  /\ authLast' = Response("resetPassword", resetPc.userId, "new", 204, "")
  /\ resetPc' = IdleReset
  /\ last' = Env
  /\ UNCHANGED <<hasPrisma, isActive, nextSid>>
  /\ UNCHANGED <<disableEmailVerification, registered, emailVerifiedAt, password, verifyToken,
                 resetToken, loginPc, sessPw>>
  /\ UNCHANGED outAuth

\* an operator flips isActive on a user row
SetActiveRegistered(u) ==
  /\ u \in registered
  /\ SetActive(u)

NextAuth ==
  \/ \E e \in AuthEmails : Register(e, "old")
  \/ \E u \in Users : VerifyEmail(u)
  \/ \E e \in AuthEmails, pw \in Passwords : LoginVerify(e, pw)
  \/ LoginCreate
  \/ \E e \in AuthEmails : RequestReset(e)
  \/ \E u \in Users : ResetFind(u)
  \/ ResetTx
  \/ ResetRevokeAll
  \/ \E u \in Users : SetActiveRegistered(u)
  \/ \E s \in Sids : Guard(s, "none")

(***************************************************************************)
(* verifyEmail and resetPassword one prisma call at a time, for callers    *)
(* that present the same token together.                                   *)
(***************************************************************************)
Callers == 1..MaxCallers
TokOps == {"verifyEmail", "resetPassword"}
IdleCaller == [pc |-> "idle", op |-> "", userId |-> NoUser]

InitTok ==
  /\ tokPc = [p \in Callers |-> IdleCaller]
  /\ tokOk = [o \in TokOps |-> [u \in Users |-> 0]]

\* the token handlers at rest, for the specifications that do not exercise them
IdleTok == InitTok

\* the state of the token of user u that handler op looks up by its hash
tokenOf(op, u) == IF op = "verifyEmail" THEN verifyToken[u] ELSE resetToken[u]

\* findUnique token; if (!rec || rec.usedAt || rec.expiresAt < new Date()) return 400
TokenFind(p, op, u) ==
  /\ tokPc[p].pc = "idle"
  /\ IF tokenOf(op, u) # "issued"
     THEN /\ authLast' = Response(op, u, "", 400, "Invalid token")
          /\ UNCHANGED <<tokPc, verifyToken, resetToken>>
     ELSE /\ tokPc' = [tokPc EXCEPT ![p] = [pc |-> "tx", op |-> op, userId |-> u]]
          /\ UNCHANGED <<authLast, verifyToken, resetToken>>
  /\ last' = Env
  /\ UNCHANGED <<hasPrisma, cache, durable, isActive, nextSid>>
  /\ UNCHANGED <<disableEmailVerification, registered, emailVerifiedAt, password,
                 loginPc, resetPc, sessPw, resetReturned, tokOk>>
  /\ UNCHANGED outTok

\* prisma.$transaction([...]): verifyEmail stamps emailVerifiedAt and usedAt,
\* resetPassword upserts the credential, stamps usedAt and deletes the session rows
TokenTx(p) ==
  /\ tokPc[p].pc = "tx"
  /\ LET u == tokPc[p].userId IN
     IF tokPc[p].op = "verifyEmail"
     THEN /\ emailVerifiedAt' = emailVerifiedAt \cup {u}
          /\ verifyToken' = [verifyToken EXCEPT ![u] = "used"]
          /\ UNCHANGED <<password, resetToken, durable>>
     ELSE /\ password' = [password EXCEPT ![u] = "new"]
          /\ resetToken' = [resetToken EXCEPT ![u] = "used"]
          /\ durable' = deleteMany(durable, u)
          /\ UNCHANGED <<emailVerifiedAt, verifyToken>>
  /\ tokPc' = [tokPc EXCEPT ![p].pc = "finish"]
  /\ last' = Env
  /\ UNCHANGED <<hasPrisma, cache, isActive, nextSid>>
  /\ UNCHANGED <<disableEmailVerification, registered, loginPc, resetPc, sessPw,
                 resetReturned, authLast, tokOk>>
  /\ UNCHANGED outTok

\* verifyEmail: the session for the verified user; resetPassword: sessions.revokeAll;
\* then the audit record and return { status: 204 }
TokenFinish(p) ==
  /\ tokPc[p].pc = "finish"
  /\ LET u == tokPc[p].userId IN
     /\ IF tokPc[p].op = "verifyEmail"
        THEN IF ~disableEmailVerification /\ findUnique(u) # NoUser
             THEN /\ nextSid <= MaxSessions
                  /\ \E r \in {create(nextSid, u, "none")} :
                       /\ cache' = r.cache
                       /\ durable' = r.durable
                  /\ nextSid' = nextSid + 1
                  /\ sessPw' = [sessPw EXCEPT ![nextSid] = "token"]
                  /\ UNCHANGED resetReturned
             ELSE UNCHANGED <<cache, durable, nextSid, sessPw, resetReturned>>
        ELSE /\ \E r \in {revokeAll(u, "none")} :
                  /\ cache' = r.cache
                  /\ durable' = r.durable
             /\ resetReturned' = resetReturned \cup {u}
             /\ UNCHANGED <<nextSid, sessPw>>
     /\ tokOk' = [tokOk EXCEPT ![tokPc[p].op][u] = @ + 1]
     /\ authLast' = Response(tokPc[p].op, u, "", 204, "")
  /\ tokPc' = [tokPc EXCEPT ![p] = IdleCaller]
  /\ last' = Env
  /\ UNCHANGED <<hasPrisma, isActive>>
  /\ UNCHANGED <<disableEmailVerification, registered, emailVerifiedAt, password, verifyToken,
                 resetToken, loginPc, resetPc>>
  /\ UNCHANGED outTok

NextTok ==
  \/ \E e \in AuthEmails : Register(e, "old")
  \/ \E e \in AuthEmails : RequestReset(e)
  \/ \E p \in Callers, o \in TokOps, u \in Users : TokenFind(p, o, u)
  \/ \E p \in Callers : TokenTx(p)
  \/ \E p \in Callers : TokenFinish(p)

(***************************************************************************)
(* AuthService, each call as a whole: the steps it takes in order, its     *)
(* answer, and the audit sink that may fail under it                       *)
(***************************************************************************)
AuditKinds == {"REGISTER", "VERIFY_SENT", "LOGIN_FAIL_NOT_VERIFIED", "LOGIN_FAIL", "LOGIN_SUCCESS",
               "VERIFY_OK", "SESSION_CREATED_POST_VERIFICATION", "RESET_REQ", "RESET_OK"}

\* the state a call starts from, with nothing done and nothing answered yet
Flow0 ==
  [registered |-> registered, emailVerifiedAt |-> emailVerifiedAt, password |-> password,
   verifyToken |-> verifyToken, resetToken |-> resetToken, cache |-> cache, durable |-> durable,
   created |-> NoSid, status |-> 0, body |-> "", steps |-> <<>>, logged |-> <<>>]

Step(r, name) == [r EXCEPT !.steps = Append(@, name)]

\* an audit sink whose failure reaches the caller
appendNoCatch(sinkFails) == IF sinkFails THEN "throw" ELSE "ok"
\* AuditService.append: prisma.auditLog.create(...).catch(() => {})
append(sinkFails) == IF sinkFails THEN "swallowed" ELSE "ok"

\* await this.audit.append(kind, userId, req) inside a call; an exception
\* leaving the call is answered with 500 by the framework
Audit(r, kind, sinkFails) ==
  IF r.status = 500 THEN r
  ELSE IF append(sinkFails) = "throw"
  THEN [Step(r, "audit.append") EXCEPT !.status = 500, !.body = "Internal server error"]
  ELSE [Step(r, "audit.append") EXCEPT !.logged = IF append(sinkFails) = "ok" THEN Append(@, kind) ELSE @]

\* return { status, body }
Return(r, status, body) ==
  IF r.status = 500 THEN r ELSE [Step(r, "return") EXCEPT !.status = status, !.body = body]

\* const sid = await this.sessions.create(user.id, req); this.setSessionCookie(res, sid)
CreateSession(r, userId) ==
  IF r.status = 500 THEN r
  ELSE LET c == create(nextSid, userId, "none") IN
    [Step(r, "sessions.create") EXCEPT !.cache = c.cache, !.durable = c.durable, !.created = nextSid]

\* AuthService.register(email, password, req, res), autoSendOnRegister at its default
register(email, pw, sinkFails) ==
  LET normalized == normalize(email)
      exists == findUnique(normalized)
      r1 == Step(Flow0, "user.findUnique")
  IN
  IF exists # NoUser THEN Return(r1, 400, "Invalid credentials")
  ELSE
    LET r2 == Audit([Step(r1, "user.create") EXCEPT !.registered = @ \cup {normalized},
                                                    !.password[normalized] = pw],
                    "REGISTER", sinkFails)
        r3 == IF ~disableEmailVerification /\ r2.status # 500
              THEN Audit([Step(r2, "emailVerificationToken.create")
                            EXCEPT !.verifyToken[normalized] = "issued"], "VERIFY_SENT", sinkFails)
              ELSE r2
        r4 == IF ~requiresVerification THEN CreateSession(r3, normalized) ELSE r3
    IN Return(r4, IF requiresVerification THEN 202 ELSE 201,
                  IF requiresVerification THEN "requiresVerification" ELSE "session")

\* cred?.hash || DUMMY_HASH
hashFor(user) == IF user # NoUser /\ password[user] # "none" THEN "stored" ELSE "DUMMY_HASH"

\* a login that verifies the password only when the user exists
verifyStepsShortCircuit(user) ==
  IF user = NoUser THEN <<>> ELSE <<"verifyPassword", hashFor(user)>>
\* const ok = await verifyPassword(cred?.hash || DUMMY_HASH, password || '', pepper)
verifySteps(user) == <<"verifyPassword", hashFor(user)>>

\* a login refused only for a missing or deactivated user
loginRefusedIgnoringPassword(user, ok) == user = NoUser \/ ~isActive[user]
\* if (!user || !ok || user.isActive === false)
loginRefused(user, ok) == user = NoUser \/ ~ok \/ ~isActive[user]

\* AuthService.login(email, password, req, res)
login(email, pw, sinkFails) ==
  LET user == findUnique(normalize(email))
      ok == verifyPassword(user, pw)
      r1 == [Flow0 EXCEPT !.steps =
               <<"user.findUnique">>
               \o (IF user # NoUser THEN <<"passwordCredential.findUnique">> ELSE <<>>)
               \o verifySteps(user)]
  IN
  IF ~disableEmailVerification /\ user # NoUser /\ user \notin emailVerifiedAt
  THEN Return(Audit(r1, "LOGIN_FAIL_NOT_VERIFIED", sinkFails), 403, "Email verification required")
  ELSE IF loginRefused(user, ok)
  THEN Return(Audit(r1, "LOGIN_FAIL", sinkFails), 401, "Invalid credentials")
  ELSE Return(Audit(CreateSession(r1, user), "LOGIN_SUCCESS", sinkFails), 200, "session")

\* AuthService.requestVerify(req) with req.user.id = userId
requestVerify(userId, sinkFails) ==
  IF userId = NoUser THEN Return(Flow0, 401, "Unauthorized")
  ELSE Return(Audit([Step(Flow0, "emailVerificationToken.create")
                       EXCEPT !.verifyToken[userId] = "issued"], "VERIFY_SENT", sinkFails), 204, "")

\* AuthService.verifyEmail(token, req, res) with the token mailed to u
verifyEmail(u, sinkFails) ==
  LET r1 == Step(Flow0, "emailVerificationToken.findUnique") IN
  IF verifyToken[u] # "issued" THEN Return(r1, 400, "Invalid token")
  ELSE
    LET r2 == Audit([Step(r1, "$transaction") EXCEPT !.emailVerifiedAt = @ \cup {u},
                                                     !.verifyToken[u] = "used"],
                    "VERIFY_OK", sinkFails)
        r3 == IF ~disableEmailVerification /\ findUnique(u) # NoUser
              THEN Audit(CreateSession(r2, u), "SESSION_CREATED_POST_VERIFICATION", sinkFails)
              ELSE r2
    IN Return(r3, 204, "")

\* a mailer whose failure reaches the caller
sendPasswordResetNoCatch(mailFails) == IF mailFails THEN "throw" ELSE "ok"
\* await this.mailer.sendPasswordReset({ email: user.email }, token).catch(() => {})
sendPasswordReset(mailFails) == IF mailFails THEN "swallowed" ELSE "ok"

\* the mail of a reset token inside a call
Mail(r, mailFails) ==
  IF r.status = 500 THEN r
  ELSE IF sendPasswordReset(mailFails) = "throw"
  THEN [Step(r, "mailer.sendPasswordReset:failed") EXCEPT !.status = 500, !.body = "Internal server error"]
  ELSE Step(r, IF mailFails THEN "mailer.sendPasswordReset:failed" ELSE "mailer.sendPasswordReset")

\* AuthService.requestReset(email, req)
requestReset(email, sinkFails, mailFails) ==
  LET user == findUnique(normalize(email))
      r1 == Step(Flow0, "user.findUnique")
  IN
  IF user = NoUser THEN Return(r1, 204, "")
  ELSE Return(Audit(Mail([Step(r1, "passwordResetToken.create") EXCEPT !.resetToken[user] = "issued"],
                         mailFails),
                    "RESET_REQ", sinkFails), 204, "")

\* AuthService.resetPassword(token, newPassword, req) with the token mailed to u
resetPassword(u, sinkFails) ==
  LET r1 == Step(Flow0, "passwordResetToken.findUnique") IN
  IF resetToken[u] # "issued" THEN Return(r1, 400, "Invalid token")
  ELSE
    LET d == deleteMany(durable, u)
        ids == findManyIds(d, u)
        r2 == [Step(r1, "$transaction") EXCEPT !.password[u] = "new", !.resetToken[u] = "used",
                                               !.durable = d]
        r3 == [Step(r2, "sessions.revokeAll") EXCEPT !.cache = IF ids # {} THEN redisDel(@, ids) ELSE @]
    IN Return(Audit(r3, "RESET_OK", sinkFails), 204, "")

\* AuthService.logout(req) with req.sessionId = sid, the session SessionGuard resolved
logout(sid) ==
  LET r1 == IF sid # NoSid
            THEN LET o == revoke(sid, "none") IN
                 [Step(Flow0, "sessions.revoke") EXCEPT !.cache = o.cache, !.durable = o.durable]
            ELSE Flow0
  IN Return(r1, 204, "")

\* the addresses that register in a behaviour of whole calls; the other
\* address of AuthEmails stays unknown to the user table
RegisterEmails == {"u1", "U1 "}

NoFlow == [op |-> "none", email |-> "", pw |-> "", sinkFails |-> FALSE, known |-> FALSE,
           status |-> 0, body |-> "", steps |-> <<>>, logged |-> <<>>, created |-> NoSid]

InitFlow ==
  /\ sessionBeforeVerification \in BOOLEAN
  /\ flowLast = NoFlow

IdleFlow ==
  /\ sessionBeforeVerification = FALSE
  /\ flowLast = NoFlow

\* the call r of operation op takes effect and answers
Answer(r, op, email, pw, sinkFails) ==
  /\ r.created # NoSid => nextSid <= MaxSessions
  /\ registered' = r.registered
  /\ emailVerifiedAt' = r.emailVerifiedAt
  /\ password' = r.password
  /\ verifyToken' = r.verifyToken
  /\ resetToken' = r.resetToken
  /\ cache' = r.cache
  /\ durable' = r.durable
  /\ nextSid' = IF r.created # NoSid THEN nextSid + 1 ELSE nextSid
  /\ flowLast' = [op |-> op, email |-> email, pw |-> pw, sinkFails |-> sinkFails,
                  known |-> findUnique(normalize(email)) # NoUser,
                  status |-> r.status, body |-> r.body, steps |-> r.steps, logged |-> r.logged,
                  created |-> r.created]
  /\ last' = Env
  /\ UNCHANGED <<hasPrisma, isActive, disableEmailVerification, loginPc, resetPc, sessPw,
                 resetReturned, authLast, sessionBeforeVerification>>
  /\ UNCHANGED outFlow

RegisterCall(email, pw, sinkFails) == Answer(register(email, pw, sinkFails), "register", email, pw, sinkFails)
LoginCall(email, pw, sinkFails) == Answer(login(email, pw, sinkFails), "login", email, pw, sinkFails)
RequestVerifyCall(sid, sinkFails) ==
  Answer(requestVerify(resolvePrincipal(sid), sinkFails), "requestVerify", resolvePrincipal(sid), "", sinkFails)
VerifyEmailCall(u, sinkFails) == Answer(verifyEmail(u, sinkFails), "verifyEmail", u, "", sinkFails)
RequestResetCall(email, sinkFails, mailFails) ==
  Answer(requestReset(email, sinkFails, mailFails), "requestReset", email, "", sinkFails)
\* POST /auth/logout behind SessionGuard: the call is made with a session the guard accepts
LogoutCall(sid) ==
  /\ Resolvable(sid)
  /\ Answer(logout(sid), "logout", resolvePrincipal(sid), "", FALSE)
ResetPasswordCall(u, sinkFails) == Answer(resetPassword(u, sinkFails), "resetPassword", u, "new", sinkFails)

\* the hour of a verification token passes: rec.expiresAt < new Date()
VerifyTokenExpires(u) ==
  /\ verifyToken[u] = "issued"
  /\ verifyToken' = [verifyToken EXCEPT ![u] = "expired"]
  /\ flowLast' = [NoFlow EXCEPT !.op = "env"]
  /\ last' = Env
  /\ UNCHANGED <<hasPrisma, cache, durable, isActive, nextSid>>
  /\ UNCHANGED <<disableEmailVerification, registered, emailVerifiedAt, password, resetToken,
                 loginPc, resetPc, sessPw, resetReturned, authLast, sessionBeforeVerification>>
  /\ UNCHANGED outFlow

\* an operator flips isActive on a user row
SetActiveFlow(u) ==
  /\ u \in registered
  /\ isActive' = [isActive EXCEPT ![u] = ~isActive[u]]
  /\ last' = Env
  /\ UNCHANGED <<hasPrisma, cache, durable, nextSid>>
  /\ UNCHANGED <<authVars, flowVars>>
  /\ UNCHANGED outFlow

NextFlow ==
  \/ \E e \in RegisterEmails, f \in BOOLEAN : RegisterCall(e, "old", f)
  \/ \E e \in AuthEmails, pw \in {"old", "new", "bad"}, f \in BOOLEAN : LoginCall(e, pw, f)
  \/ \E s \in Sids \cup {NoSid}, f \in BOOLEAN : RequestVerifyCall(s, f)
  \/ \E u \in Users, f \in BOOLEAN : VerifyEmailCall(u, f)
  \/ \E e \in AuthEmails, f \in BOOLEAN, m \in BOOLEAN : RequestResetCall(e, f, m)
  \/ \E u \in Users, f \in BOOLEAN : ResetPasswordCall(u, f)
  \/ \E u \in Users : SetActiveFlow(u)

\* the calls of AuthService with logout and the expiry of verification tokens
NextFlowAll ==
  \/ NextFlow
  \/ \E sid \in Sids : LogoutCall(sid)
  \/ \E u \in Users : VerifyTokenExpires(u)

(***************************************************************************)
(* Role-based access: RolesGuard.canActivate                               *)
(***************************************************************************)
\* the names of the Role rows; NoRoleName: a UserRole row whose role relation
\* is not loaded (r.role?.name is undefined)
RoleNames == {"user", "admin"}
NoRoleName == "undefined"
\* @Roles(...) lists on the routes; <<>>: no @Roles on the route
RequiredLists ==
  {<<>>, <<"user">>, <<"admin">>, <<"user", "admin">>, <<"admin", "admin">>}

\* new Set(roles.map((r) => r.role?.name).filter(Boolean))
namesOf(rows) == {n \in rows : n # NoRoleName}

\* the guard demanding every required role
rolesCanActivateEvery(required, userId) ==
  IF Len(required) = 0 THEN TRUE
  ELSE IF userId = NoUser \/ ~hasUserRole THEN FALSE
  ELSE \A i \in 1..Len(required) : required[i] \in namesOf(userRole[userId])

\* RolesGuard.canActivate with req.user.id = userId (NoUser: req.user is not set)
rolesCanActivate(required, userId) ==
  IF Len(required) = 0 THEN TRUE
  ELSE IF userId = NoUser \/ ~hasUserRole THEN FALSE
  ELSE \E i \in 1..Len(required) : required[i] \in namesOf(userRole[userId])

NoRbacRequest == [required |-> <<>>, userId |-> NoUser, result |-> FALSE, decided |-> FALSE]

InitRbac ==
  /\ hasUserRole \in BOOLEAN
  /\ userRole = [u \in Users |-> {}]
  /\ rbacLast = NoRbacRequest

IdleRbac ==
  /\ hasUserRole = FALSE
  /\ userRole = [u \in Users |-> {}]
  /\ rbacLast = NoRbacRequest

\* the host application gives a user a role (a UserRole row)
GrantRole(userId, name) ==
  /\ name \notin userRole[userId]
  /\ userRole' = [userRole EXCEPT ![userId] = @ \cup {name}]
  /\ UNCHANGED <<hasUserRole, rbacLast>>
  /\ UNCHANGED outRbac

\* the host application takes a role from a user
DropRole(userId, name) ==
  /\ name \in userRole[userId]
  /\ userRole' = [userRole EXCEPT ![userId] = @ \ {name}]
  /\ UNCHANGED <<hasUserRole, rbacLast>>
  /\ UNCHANGED outRbac

\* a request reaches RolesGuard on a route with the @Roles list required
Authorize(required, userId) ==
  /\ rbacLast' = [required |-> required, userId |-> userId,
                  result |-> rolesCanActivate(required, userId), decided |-> TRUE]
  /\ UNCHANGED <<hasUserRole, userRole>>
  /\ UNCHANGED outRbac

NextRbac ==
  \/ \E u \in Users, n \in RoleNames \cup {NoRoleName} : GrantRole(u, n)
  \/ \E u \in Users, n \in RoleNames \cup {NoRoleName} : DropRole(u, n)
  \/ \E r \in RequiredLists, u \in Users \cup {NoUser} : Authorize(r, u)

(***************************************************************************)
(* The rate-limited routes of AuthController behind RateLimitGuard         *)
(***************************************************************************)
Routes == {"login", "request-verify", "verify", "request-reset", "reset-password"}
Accounts == {"a", "b"}

AccountRule(key, limit) == [key |-> key, limit |-> limit, windowSec |-> MaxWindow, by |-> "account"]

\* @RateLimit(...) of each route, the limits and windows scaled down in proportion
RouteRules(route) ==
  IF route = "login"
  THEN <<[key |-> "login", limit |-> MaxLimit, windowSec |-> 1, by |-> "ip"], AccountRule("login", 1)>>
  ELSE IF route = "request-verify" THEN <<AccountRule("verify", 1)>>
  ELSE IF route = "verify" THEN <<AccountRule("verify", MaxLimit)>>
  ELSE <<AccountRule("reset", 1)>>

\* req.body?.email || '': LoginDto and RequestResetDto carry the account's
\* email, the bodies of the other routes carry a token or nothing
bodyEmail(route, account) ==
  IF route \in {"login", "request-reset"} THEN account ELSE ""

NoRoute == [route |-> "", account |-> "", fresh |-> FALSE]

InitRoute ==
  /\ rlRoute = NoRoute
  /\ counted = [b \in Buckets |-> {}]

\* the routes at rest, for the specifications that do not exercise them
IdleRoute == InitRoute

InitRLRoutes ==
  /\ rlNow = 0
  /\ rules = RouteRules("login")
  /\ bucket = [b \in Buckets |-> EmptySet]
  /\ bexp = [b \in Buckets |-> 0]
  /\ admitted = [b \in Buckets |-> EmptySet]
  /\ rlLast = NoRequest
  /\ procs = <<>>

\* the next request arrives on another route: reflector.getAllAndOverride(RL_META_KEY, ...)
SwitchRoute(route) ==
  /\ rules # RouteRules(route)
  /\ rules' = RouteRules(route)
  /\ UNCHANGED <<rlNow, bucket, bexp, admitted, rlLast, procs>>
  /\ UNCHANGED routeVars
  /\ UNCHANGED outRoute

\* a request of an account on a route reaches RateLimitGuard.canActivate
RouteRequest(route, ip, account) ==
  /\ rules = RouteRules(route)
  /\ LET email == bodyEmail(route, account) IN
     \E d \in {evalRules(1, bucket, bexp, <<>>, ip, email, rlNow)} :
        /\ bucket' = d.bucket
        /\ bexp' = d.bexp
        /\ admitted' = [b \in Buckets |->
                          IF \E i \in 1..Len(rules) : d.outs[i] = "admit" /\ bucketOf(rules[i], ip, email) = b
                          THEN zadd(admitted[b], rlNow) ELSE admitted[b]]
        /\ counted' = [b \in Buckets |->
                          IF \E i \in 1..Len(rules) :
                               /\ d.outs[i] = "admit" /\ rules[i].by = "account"
                               /\ bucketOf(rules[i], ip, email) = b
                          THEN counted[b] \cup {account} ELSE counted[b]]
        /\ rlLast' = [ip |-> ip, email |-> email, t |-> rlNow, outs |-> d.outs,
                      status |-> d.status, retryAfter |-> d.retryAfter,
                      pre |-> [i \in 1..Len(rules) |->
                                 admittedSince(bucketOf(rules[i], ip, email), rlNow - rules[i].windowSec)],
                      preOldest |-> [i \in 1..Len(rules) |->
                                 admittedOldestSince(bucketOf(rules[i], ip, email), rlNow - rules[i].windowSec)],
                      atStart |-> [i \in 1..Len(rules) |->
                                 entriesAt(bucketOf(rules[i], ip, email), rlNow - rules[i].windowSec)]]
        /\ rlRoute' = [route |-> route, account |-> account,
                       fresh |-> \A i \in 1..Len(rules) :
                                    rules[i].by = "account" =>
                                      account \notin counted[bucketOf(rules[i], ip, email)]]
  /\ UNCHANGED <<rlNow, rules, procs>>
  /\ UNCHANGED outRoute

NextRoutes ==
  \/ \E r \in Routes : SwitchRoute(r)
  \/ \E r \in Routes, ip \in Ips, a \in Accounts : RouteRequest(r, ip, a)

(***************************************************************************)
(* The request pipeline: CsrfModule applies CsrfMiddleware to every route, *)
(* then the guards of @UseGuards run in the order they are listed, then    *)
(* the handler                                                             *)
(***************************************************************************)
PipeRoutes == {"register", "login", "logout", "me", "request-verify", "verify",
               "request-reset", "reset-password", "sessions", "sessions-revoke"}

\* @Get / @Post of each handler
methodOf(route) == IF route \in {"me", "sessions"} THEN "GET" ELSE "POST"

\* @UseGuards(...) of each handler, in the order of the decorator's arguments
guardsOf(route) ==
  IF route \in {"logout", "me", "sessions", "sessions-revoke"} THEN <<"SessionGuard">>
  ELSE IF route = "request-verify" THEN <<"SessionGuard", "RateLimitGuard">>
  ELSE <<"RateLimitGuard">>

\* the routes that carry a @RateLimit(...) decorator
RateLimited == {r \in PipeRoutes : \E i \in DOMAIN guardsOf(r) : guardsOf(r)[i] = "RateLimitGuard"}

NoPipe == [route |-> "", sessionCookie |-> Absent, csrf |-> Absent, header |-> Absent,
           pc |-> "done", idx |-> 0, trace |-> <<>>, csrfChecked |-> FALSE, status |-> 0]

InitPipe == pipe = NoPipe

\* the pipeline at rest, for the specifications that do not exercise it
IdlePipe == InitPipe

\* a request arrives on a route
Arrive(route, sessionCookie, csrf, xCsrfToken) ==
  /\ pipe.pc = "done"
  /\ pipe' = [route |-> route, sessionCookie |-> sessionCookie, csrf |-> csrf,
              header |-> xCsrfToken,
              pc |-> "middleware", idx |-> 0, trace |-> <<>>, csrfChecked |-> FALSE,
              status |-> 0]
  /\ UNCHANGED <<sessVars, rlVars, csrfVars, authVars, tokVars, routeVars, rbacVars, flowVars, ttlVars, concVars>>

\* consumer.apply(CsrfMiddleware).forRoutes({ path: '*', method: ALL })
configure ==
  /\ pipe.pc = "middleware"
  /\ LET res == use(methodOf(pipe.route), pipe.sessionCookie, pipe.csrf, pipe.header) IN
     pipe' = [pipe EXCEPT !.trace = Append(@, "CsrfMiddleware"),
                          !.csrfChecked = Truthy(pipe.sessionCookie)
                                            /\ methodOf(pipe.route) \in Mutating,
                          !.pc = IF res.next THEN "guards" ELSE "done",
                          !.idx = 1,
                          !.status = res.status]
  /\ UNCHANGED <<sessVars, rlVars, csrfVars, authVars, tokVars, routeVars, rbacVars, flowVars, ttlVars, concVars>>

\* the next guard of the route decides, ok being its decision: RateLimitGuard
\* throws 429, a guard that returns false is answered 403
RunGuard(ok) ==
  /\ pipe.pc = "guards"
  /\ pipe.idx <= Len(guardsOf(pipe.route))
  /\ LET g == guardsOf(pipe.route)[pipe.idx]
         isLast == pipe.idx = Len(guardsOf(pipe.route))
     IN
     pipe' = [pipe EXCEPT !.trace = Append(@, g),
                          !.idx = @ + 1,
                          !.pc = IF ~ok THEN "done" ELSE IF isLast THEN "handler" ELSE "guards",
                          !.status = IF ok THEN 0 ELSE IF g = "RateLimitGuard" THEN 429 ELSE 403]
  /\ UNCHANGED <<sessVars, rlVars, csrfVars, authVars, tokVars, routeVars, rbacVars, flowVars, ttlVars, concVars>>

\* the controller's method runs
RunHandler ==
  /\ pipe.pc = "handler"
  /\ pipe' = [pipe EXCEPT !.trace = Append(@, "handler"), !.pc = "done", !.status = 200]
  /\ UNCHANGED <<sessVars, rlVars, csrfVars, authVars, tokVars, routeVars, rbacVars, flowVars, ttlVars, concVars>>

NextPipe ==
  \/ \E r \in PipeRoutes, sc \in SessionCookies, c \in Values, h \in Values : Arrive(r, sc, c, h)
  \/ configure
  \/ \E ok \in BOOLEAN : RunGuard(ok)
  \/ RunHandler

(***************************************************************************)
(* SessionGuard, revokeAll and revoke as interleaved steps: each await of  *)
(* the code is a step of its own                                           *)
(***************************************************************************)
IdleGuard == [pc |-> "idle", sid |-> NoSid, userId |-> NoUser, result |-> "",
              afterCommit |-> FALSE, cachePresent |-> FALSE]
IdleRevokeAll == [pc |-> "idle", userId |-> NoUser, ids |-> {}]
IdleRevoke == [pc |-> "idle", sid |-> NoSid]

InitConc ==
  /\ gd = IdleGuard
  /\ rv = IdleRevokeAll
  /\ rk = IdleRevoke
  /\ committed = {}

\* the interleaved calls at rest, for the specifications that do not exercise them
IdleConc == InitConc

\* a guard transaction that validates the user only
transactionUserOnly(sid, userId) ==
  IF ~isActive[userId] THEN "deny" ELSE "accept"
\* prisma.$transaction: tx.session.findUnique, then tx.user.findUnique
transaction(sid, userId) ==
  IF ~durable[sid].present \/ durable[sid].revokedAt THEN "deny"
  ELSE IF ~isActive[userId] THEN "deny"
  ELSE "accept"

\* const rec = await this.sessions.get(sid); if (!rec) return false;
\* if (!this.prisma?.user) return false
GuardGet(sid) ==
  /\ gd.pc \in {"idle", "done"}
  /\ LET rec == get(cache, sid) IN
     gd' = IF rec = Null \/ ~hasPrisma
           THEN [IdleGuard EXCEPT !.pc = "done", !.sid = sid, !.result = "deny"]
           ELSE [IdleGuard EXCEPT !.pc = "tx", !.sid = sid, !.userId = rec.userId]
  /\ UNCHANGED <<rv, rk, committed>>
  /\ UNCHANGED sessVars
  /\ UNCHANGED <<rlVars, csrfVars, authVars, tokVars, routeVars, rbacVars, flowVars, ttlVars, pipeVars>>

\* the durable read of the guard and its answer
GuardTransaction ==
  /\ gd.pc = "tx"
  /\ gd' = [gd EXCEPT !.pc = "done", !.result = transaction(gd.sid, gd.userId),
                      !.afterCommit = gd.sid \in committed,
                      !.cachePresent = get(cache, gd.sid) # Null]
  /\ UNCHANGED <<rv, rk, committed>>
  /\ UNCHANGED sessVars
  /\ UNCHANGED <<rlVars, csrfVars, authVars, tokVars, routeVars, rbacVars, flowVars, ttlVars, pipeVars>>

\* const sessions = await this.prisma.session.findMany(...); if (ids.length) ...
RevokeAllFindMany(userId) ==
  /\ hasPrisma
  /\ rv.pc \in {"idle", "done"}
  /\ LET ids == findManyIds(durable, userId) IN
     rv' = [pc |-> IF ids = {} THEN "done" ELSE "deleteMany", userId |-> userId, ids |-> ids]
  /\ UNCHANGED <<gd, rk, committed>>
  /\ UNCHANGED sessVars
  /\ UNCHANGED <<rlVars, csrfVars, authVars, tokVars, routeVars, rbacVars, flowVars, ttlVars, pipeVars>>

\* await this.prisma.session.deleteMany({ where: { userId } })
RevokeAllDeleteMany ==
  /\ rv.pc = "deleteMany"
  /\ durable' = deleteMany(durable, rv.userId)
  /\ committed' = committed \cup findManyIds(durable, rv.userId)
  /\ rv' = [rv EXCEPT !.pc = "del"]
  /\ last' = Env
  /\ UNCHANGED <<gd, rk>>
  /\ UNCHANGED <<hasPrisma, cache, isActive, nextSid>>
  /\ UNCHANGED <<rlVars, csrfVars, authVars, tokVars, routeVars, rbacVars, flowVars, ttlVars, pipeVars>>

\* await this.redis.del(...ids.map(...)), which may fail
RevokeAllRedisDel(fails) ==
  /\ rv.pc = "del"
  /\ cache' = IF fails THEN cache ELSE redisDel(cache, rv.ids)
  /\ rv' = [rv EXCEPT !.pc = "done"]
  /\ last' = Env
  /\ UNCHANGED <<gd, rk, committed>>
  /\ UNCHANGED <<hasPrisma, durable, isActive, nextSid>>
  /\ UNCHANGED <<rlVars, csrfVars, authVars, tokVars, routeVars, rbacVars, flowVars, ttlVars, pipeVars>>

\* revoke: await this.redis.del(this.key(sessionId))
RevokeRedisDel(sid) ==
  /\ rk.pc \in {"idle", "done"}
  /\ cache' = redisDel(cache, {sid})
  /\ rk' = [pc |-> IF hasPrisma THEN "delete" ELSE "done", sid |-> sid]
  /\ last' = Env
  /\ UNCHANGED <<gd, rv, committed>>
  /\ UNCHANGED <<hasPrisma, durable, isActive, nextSid>>
  /\ UNCHANGED <<rlVars, csrfVars, authVars, tokVars, routeVars, rbacVars, flowVars, ttlVars, pipeVars>>

\* revoke: await this.prisma.session.delete({ where: { id } }).catch(() => {})
RevokeDelete(fails) ==
  /\ rk.pc = "delete"
  /\ durable' = IF fails THEN durable ELSE [durable EXCEPT ![rk.sid] = NoRow]
  /\ committed' = IF ~fails /\ durable[rk.sid].present THEN committed \cup {rk.sid} ELSE committed
  /\ rk' = [rk EXCEPT !.pc = "done"]
  /\ last' = Env
  /\ UNCHANGED <<gd, rv>>
  /\ UNCHANGED <<hasPrisma, cache, isActive, nextSid>>
  /\ UNCHANGED <<rlVars, csrfVars, authVars, tokVars, routeVars, rbacVars, flowVars, ttlVars, pipeVars>>

NextConc ==
  \/ \E u \in Users : Create(u, "none")
  \/ \E s \in Sids : GuardGet(s)
  \/ GuardTransaction
  \/ \E u \in Users : RevokeAllFindMany(u)
  \/ RevokeAllDeleteMany
  \/ \E f \in BOOLEAN : RevokeAllRedisDel(f)
  \/ \E s \in Sids : RevokeRedisDel(s)
  \/ \E f \in BOOLEAN : RevokeDelete(f)

Init == InitSess /\ IdleRL /\ IdleCsrf /\ IdleAuth /\ IdleTok /\ IdleRoute /\ IdleRbac /\ IdleFlow /\ IdleTtl /\ IdlePipe /\ IdleConc
Next == NextSess

\* the seconds that may pass inside create between new Date() and the
\* execution of SET ... EX by redis
MaxDelay == 2

\* create() when delay seconds pass between const now = new Date() and the
\* redis SET: expiresAt was computed from now, the EX expiry counts ttlSec
\* from the SET
createDelayed(sid, userId, delay) ==
  LET c == create(sid, userId, "none") IN
  Out([c.cache EXCEPT ![sid].life = @ - delay],
      [c.durable EXCEPT ![sid].life = IF c.durable[sid].present THEN @ - delay ELSE @],
      c.result)

CreateDelayed(userId, delay) ==
  /\ nextSid <= MaxSessions
  /\ LET r == createDelayed(randomSessionId, userId, delay) IN
       /\ cache' = r.cache
       /\ durable' = r.durable
       /\ nextSid' = nextSid + 1
       /\ last' = Op("create", randomSessionId, userId, "none", r.result, {})
  /\ UNCHANGED <<hasPrisma, isActive>>
  /\ UNCHANGED outSess

\* the session manager when redis answers late
NextDelay ==
  \/ \E u \in Users, d \in 0..MaxDelay : CreateDelayed(u, d)
  \/ \E s \in Sids : Revoke(s, "none")
  \/ \E s \in Sids \cup {NoSid} : Guard(s, "none")
  \/ Tick
  \/ \E u \in Users : SetActive(u)

SpecDelay == Init /\ [][NextDelay]_vars
Spec == Init /\ [][Next]_vars
SpecFault == Init /\ [][NextFault]_vars
SpecSessApi == Init /\ [][NextSessApi]_vars
InitSpecTtl == InitSess /\ IdleRL /\ IdleCsrf /\ IdleAuth /\ IdleTok /\ IdleRoute /\ IdleRbac /\ IdleFlow /\ InitTtl /\ IdlePipe /\ IdleConc
SpecTtl == InitSpecTtl /\ [][Next]_vars
InitSpecRL == InitSess /\ ~hasPrisma /\ InitRL /\ IdleCsrf /\ IdleAuth /\ IdleTok /\ IdleRoute /\ IdleRbac /\ IdleFlow /\ IdleTtl /\ IdlePipe /\ IdleConc
SpecRL == InitSpecRL /\ [][NextRL]_vars
SpecRLFaulty == InitSpecRL /\ [][NextRLFaulty]_vars
InitSpecRace == InitSess /\ ~hasPrisma /\ InitRace /\ IdleCsrf /\ IdleAuth /\ IdleTok /\ IdleRoute /\ IdleRbac /\ IdleFlow /\ IdleTtl /\ IdlePipe /\ IdleConc
SpecRace == InitSpecRace /\ [][NextRace]_vars
InitSpecCsrf == InitSess /\ ~hasPrisma /\ IdleRL /\ IdleCsrf /\ IdleAuth /\ IdleTok /\ IdleRoute /\ IdleRbac /\ IdleFlow /\ IdleTtl /\ IdlePipe /\ IdleConc
SpecCsrf == InitSpecCsrf /\ [][NextCsrf]_vars
InitSpecAuth == InitSess /\ hasPrisma /\ IdleRL /\ IdleCsrf /\ InitAuth /\ IdleTok /\ IdleRoute /\ IdleRbac /\ IdleFlow /\ IdleTtl /\ IdlePipe /\ IdleConc
SpecAuth == InitSpecAuth /\ [][NextAuth]_vars
InitSpecTok == InitSess /\ hasPrisma /\ IdleRL /\ IdleCsrf /\ InitAuth /\ InitTok /\ IdleRoute /\ IdleRbac /\ IdleFlow /\ IdleTtl /\ IdlePipe /\ IdleConc
SpecTok == InitSpecTok /\ [][NextTok]_vars
InitSpecRoutes == InitSess /\ ~hasPrisma /\ InitRLRoutes /\ IdleCsrf /\ IdleAuth /\ IdleTok /\ InitRoute /\ IdleRbac /\ IdleFlow /\ IdleTtl /\ IdlePipe /\ IdleConc
SpecRoutes == InitSpecRoutes /\ [][NextRoutes]_vars
InitSpecRbac == InitSess /\ ~hasPrisma /\ IdleRL /\ IdleCsrf /\ IdleAuth /\ IdleTok /\ IdleRoute /\ InitRbac /\ IdleFlow /\ IdleTtl /\ IdlePipe /\ IdleConc
SpecRbac == InitSpecRbac /\ [][NextRbac]_vars
InitSpecFlow == InitSess /\ hasPrisma /\ IdleRL /\ IdleCsrf /\ InitAuth /\ IdleTok /\ IdleRoute /\ IdleRbac /\ InitFlow /\ IdleTtl /\ IdlePipe /\ IdleConc
SpecFlow == InitSpecFlow /\ [][NextFlow]_vars
SpecFlowAll == InitSpecFlow /\ [][NextFlowAll]_vars
InitSpecConc == InitSess /\ hasPrisma /\ IdleRL /\ IdleCsrf /\ IdleAuth /\ IdleTok /\ IdleRoute /\ IdleRbac /\ IdleFlow /\ IdleTtl /\ IdlePipe /\ InitConc
SpecConc == InitSpecConc /\ [][NextConc]_vars
InitSpecPipe == InitSess /\ ~hasPrisma /\ IdleRL /\ IdleCsrf /\ IdleAuth /\ IdleTok /\ IdleRoute /\ IdleRbac /\ IdleFlow /\ IdleTtl /\ InitPipe /\ IdleConc
SpecPipe == InitSpecPipe /\ [][NextPipe]_vars

(***************************************************************************)
(* Claims on the session manager                                           *)
(***************************************************************************)
\* the validity of a session as the data model states it, read off the stores:
\* a live parseable cache entry, a durable row without revokedAt, an active owner
ValidSession(sid) ==
  /\ cache[sid].kind = "json" /\ cache[sid].ttl > 0
  /\ durable[sid].present /\ ~durable[sid].revokedAt
  /\ durable[sid].userId \in Users /\ isActive[durable[sid].userId]

\* C1: with a durable store, the guard accepts a request iff its cookie names
\* a session with a live parseable cache entry, a durable row that is not
\* revoked and an active owner; in every other state it denies.
C1_GuardAcceptsIffValid ==
  (hasPrisma /\ last.op = "guard") =>
    /\ last.result \in {"accept", "deny"}
    /\ last.result = "accept" <=> (last.sid # NoSid /\ ValidSession(last.sid))
    /\ \A s \in Sids : Resolvable(s) <=> ValidSession(s)

C1_Witness ==
  /\ hasPrisma /\ last.op = "guard" /\ last.result = "accept"
  /\ \E s \in Sids : s # last.sid /\ cache[s].kind = "json" /\ durable[s].revokedAt

\* C2: once revoke(id) has returned, the guard denies id; revoking a session
\* that is already gone completes without error and id stays denied.
C2_RevokeThenNone ==
  last.op = "revoke" =>
    /\ last.fault # "cache" => last.result = "ok"
    /\ last.result = "ok" => ~Resolvable(last.sid)

\* a revoke of an id that was issued and is already gone has returned
C2_Witness ==
  /\ hasPrisma /\ last.op = "revoke" /\ last.result = "ok"
  /\ last.sid < nextSid /\ last.had = {}

\* C3: after revokeAll(subject) has returned, none of the sessions the subject
\* had at the call is resolvable, and in the cache-scan fallback none of them
\* keeps a cache entry.
C3_RevokeAllLeavesNone ==
  (last.op = "revokeAll" /\ last.result = "ok") =>
    \A s \in last.had : ~Resolvable(s) /\ (~hasPrisma => get(cache, s) = Null)

C3_Witness ==
  /\ hasPrisma /\ last.op = "revokeAll" /\ last.result = "ok"
  /\ Cardinality(last.had) >= 2

\* C10: the guard is fail-closed: when its cache read or its durable
\* transaction fails, or the cached value is malformed, or the cache entry has
\* no durable row, it answers deny; it never lets the error reach the caller.
C10_GuardFailClosed ==
  last.op = "guard" =>
    /\ last.result \in {"accept", "deny"}
    /\ last.fault # "none" => last.result = "deny"
    /\ (last.sid # NoSid /\ cache[last.sid].kind = "garbage") => last.result = "deny"
    /\ (last.sid # NoSid /\ ~durable[last.sid].present) => last.result = "deny"

\* the durable transaction failed on a session that is otherwise valid
C10_Witness ==
  /\ last.op = "guard" /\ last.fault = "db" /\ last.result = "deny"
  /\ hasPrisma /\ last.sid # NoSid /\ ValidSession(last.sid)

\* C11: for an existing active user, once create(subjectId, ctx) has returned
\* the session id S, a resolvePrincipal(S) that follows immediately returns the
\* principal whose id is subjectId.
C11_CreateThenResolve ==
  (last.op = "create" /\ last.result = "ok" /\ hasPrisma /\ isActive[last.uid]) =>
    resolvePrincipal(last.sid) = last.uid

\* the second session in the store, opened for another user than the first
C11_Witness ==
  /\ last.op = "create" /\ last.result = "ok" /\ hasPrisma /\ isActive[last.uid]
  /\ resolvePrincipal(last.sid) = last.uid
  /\ \E s \in Sids : s # last.sid /\ Resolvable(s) /\ resolvePrincipal(s) # last.uid

\* the session id was issued and its cache entry is deleted or expired, or,
\* with a durable store, its row is deleted: revoke, revokeAll or the TTL ended it
Ended(s) ==
  /\ s < nextSid
  /\ cache[s].kind = "none" \/ cache[s].ttl = 0 \/ (hasPrisma /\ ~durable[s].present)

\* C12: REVOKED and EXPIRED are terminal: a session id that revoke, revokeAll or
\* the cache expiry has ended is not resolvable, and no later operation makes
\* it resolvable again.
C12_EndedIsTerminal ==
  [][\A s \in Sids : Ended(s) => (~Resolvable(s) /\ Ended(s)' /\ ~Resolvable(s)')]_vars

\* a new session was created after an earlier one was ended
C12_Witness ==
  /\ hasPrisma /\ last.op = "create" /\ last.result = "ok" /\ Resolvable(last.sid)
  /\ \E s \in Sids : s # last.sid /\ Ended(s)

\* the cache holds a live parseable entry for the session id
LiveEntry(sid) == sid # NoSid /\ cache[sid].kind = "json" /\ cache[sid].ttl > 0

\* C13 as stated: without a durable store a session that was created, is not
\* revoked and whose cache entry has not expired is valid.
C13_CacheAloneValid ==
  (~hasPrisma /\ last.op = "guard" /\ LiveEntry(last.sid)) => last.result = "accept"

\* C13: without a durable store no session is valid: the guard denies every
\* request, a live cache entry included.
C13_NoStoreNoPrincipal ==
  ~hasPrisma =>
    /\ \A s \in Sids : ~Resolvable(s)
    /\ last.op = "guard" => last.result = "deny"

C13_Witness ==
  ~hasPrisma /\ last.op = "guard" /\ LiveEntry(last.sid) /\ last.result = "deny"

\* C27: GET /sessions lists the active sessions of the authenticated user:
\* every session it returns is owned by that user and is resolvable at that
\* moment (neither expired nor revoked).
C27_ListedAreActive ==
  (last.op = "list" /\ last.result = "ok") =>
    \A s \in last.had : OwnerOf(s) = last.uid /\ Resolvable(s)

\* C30: for every session present in both stores, at every moment, the
\* remaining TTL of its cache entry is at least the remaining lifetime of its
\* durable record, for every configured lifetime, those that floor to less
\* than one second included.
C30_CacheTtlCoversDurableLife ==
  \A s \in Sids :
    (cache[s].kind # "none" /\ durable[s].present) =>
      /\ cache[s].ttl >= durable[s].life
      /\ cache[s].ttl >= 1

\* a lifetime that floors to zero seconds: the session just created has a
\* cache entry and a durable record of one second each
C30_Witness ==
  /\ ttlFloor = 0 /\ last.op = "create" /\ last.result = "ok" /\ last.sid # NoSid
  /\ cache[last.sid].kind = "json" /\ durable[last.sid].present
  /\ cache[last.sid].ttl = 1 /\ durable[last.sid].life = 1

(***************************************************************************)
(* Claims on the rate limiter                                              *)
(***************************************************************************)
\* the bucket rule i of the last request was checked against
LastBucket(i) == bucketOf(rules[i], rlLast.ip, rlLast.email)
\* the rule of the last request that a full bucket stops first
FirstFull == CHOOSE i \in 1..Len(rules) :
               /\ rlLast.pre[i] >= rules[i].limit
               /\ \A j \in 1..(i - 1) : rlLast.pre[j] < rules[j].limit
\* max(1, W - (now - oldest)) over the checks rule i's bucket had admitted in the window
ExpectedRetryAfter(i) ==
  LET oldest == IF rlLast.preOldest[i] = -1 THEN rlLast.t ELSE rlLast.preOldest[i]
  IN Max(1, rules[i].windowSec - (rlLast.t - oldest))

\* C5: sequential checks on one bucket with limit L and window W: a check is
\* admitted iff fewer than L checks were admitted on the bucket within the
\* last W seconds.
C5_AdmitIffBelowLimit ==
  \A i \in 1..Len(rlLast.outs) :
    rlLast.outs[i] # "skipped" =>
      (rlLast.outs[i] = "admit" <=> rlLast.pre[i] < rules[i].limit)

\* limit 2: two checks admitted at different instants of the window, the third rejected
C5_Witness ==
  /\ rlLast.status = 429 /\ rlLast.outs[2] = "reject"
  /\ rules[2].limit = 2 /\ rlLast.pre[2] = 2
  /\ rlLast.preOldest[2] < rlLast.t
  /\ admitted[LastBucket(2)][rlLast.t] = 1

\* C7 as stated: every rule of the route is evaluated, the request is rejected
\* iff at least one rule rejects, with that rule's Retry-After.
C7_EveryRuleEvaluated ==
  rlLast.status # 0 =>
    /\ \A i \in 1..Len(rules) : rlLast.outs[i] \in {"admit", "reject"}
    /\ rlLast.status = 429 <=> \E i \in 1..Len(rules) : rlLast.outs[i] = "reject"

\* C7 amended: the rules are evaluated in declaration order up to the first
\* one that rejects and the later ones are not evaluated; the request is
\* rejected iff the bucket of at least one rule is full, with the Retry-After
\* of the first such rule.
C7_EvaluatedUntilFirstReject ==
  rlLast.status # 0 =>
    /\ \A i \in 1..Len(rules) :
         /\ rlLast.outs[i] = "skipped" <=> \E j \in 1..(i - 1) : rlLast.outs[j] = "reject"
         /\ rlLast.outs[i] = "reject" =>  rlLast.pre[i] >= rules[i].limit
         /\ rlLast.outs[i] = "admit" =>  rlLast.pre[i] < rules[i].limit
    /\ rlLast.status = 429 <=> \E i \in 1..Len(rules) : rlLast.pre[i] >= rules[i].limit
    /\ rlLast.status = 429 =>
         /\ rlLast.outs[FirstFull] = "reject"
         /\ rlLast.retryAfter = ExpectedRetryAfter(FirstFull)
    /\ rlLast.status # 429 => rlLast.status = 200 /\ rlLast.retryAfter = 0

\* the ip rule rejects and the account rule, whose bucket has room, is skipped
C7_Witness ==
  /\ rlLast.status = 429 /\ rlLast.outs = <<"reject", "skipped">>
  /\ rlLast.pre[2] < rules[2].limit

\* the rules of the last request that the loop reached
Evaluated == {i \in 1..Len(rules) : rlLast.outs[i] # "skipped"}
\* the last request has just been decided: no second has passed since
JustDecided == rlLast.outs # <<>> /\ rlNow = rlLast.t
\* windowStart = now - r.windowSec of rule i in the last request
WindowStart(i) == rlLast.t - rules[i].windowSec

\* C18 as stated: the check removes the entries timestamped strictly before
\* windowStart; an entry timestamped exactly windowStart is kept and counted.
C18_PruneStrictlyBefore ==
  JustDecided =>
    \A i \in Evaluated :
      /\ entriesAt(LastBucket(i), WindowStart(i)) = rlLast.atStart[i]
      /\ rlLast.outs[i] = "reject" <=> rlLast.pre[i] + rlLast.atStart[i] >= rules[i].limit

\* C18: the check removes exactly the entries timestamped windowStart or earlier:
\* an entry timestamped exactly windowStart is removed and not counted, and the
\* bucket is left with the admitted checks timestamped after windowStart.
C18_PruneThroughWindowStart ==
  JustDecided =>
    \A i \in Evaluated :
      /\ bucket[LastBucket(i)] = zremrangebyscore(admitted[LastBucket(i)], 0, WindowStart(i))
      /\ entriesAt(LastBucket(i), WindowStart(i)) = 0
      /\ rlLast.outs[i] = "reject" <=> rlLast.pre[i] >= rules[i].limit

\* a check found an entry timestamped exactly windowStart
C18_Witness ==
  JustDecided /\ \E i \in Evaluated : rlLast.atStart[i] > 0

\* C29: if a cache command of a rate-limit check (prune, count, range, insert,
\* expire) fails, the request is denied: the guard lets a request through only
\* when every command it issued succeeded, a failed prune or count always
\* denies, and a check that failed answers 500, never 200.
C29_FailedCheckNeverAdmits ==
  rlLast.status # 0 =>
    /\ rlLast.status = 200 =>
         /\ rlLast.failAt \in {"none", "zrange"}
         /\ \A i \in 1..Len(rules) : rlLast.outs[i] = "admit"
    /\ rlLast.failAt \in {"zremrangebyscore", "zcard"} => rlLast.status = 500
    /\ rlLast.failAt \in {"zadd", "expire"} => rlLast.status \in {429, 500}
    /\ (\E i \in 1..Len(rules) : rlLast.outs[i] = "error") <=> rlLast.status = 500
    /\ rlLast.status = 500 => rlLast.failAt # "none"

\* the ip bucket has room and the entry is inserted, but setting the expiry
\* fails: the request is answered 500 and the account rule is not reached
C29_Witness ==
  /\ rlLast.status = 500 /\ rlLast.failAt = "expire"
  /\ rlLast.outs = <<"error", "skipped">>
  /\ rlLast.pre[1] < rules[1].limit
  /\ bucket[LastBucket(1)][rlLast.t] >= 1

(***************************************************************************)
(* Rate limiter, concurrent checks                                         *)
(***************************************************************************)
RaceRule == rules[1]

\* C6 as stated: whenever a check decides to reject, the bucket holds at most
\* limit + 1 entries that have not expired.
C6_RejectSeesAtMostLimitPlusOne ==
  rlLast.status = 429 => rlLast.preOldest[1] <= RaceRule.limit + 1

\* C6: under every interleaving of NumProcs concurrent checks on one bucket,
\* whenever a check decides to reject, the bucket holds at most
\* limit - 1 + NumProcs entries that have not expired, and never more than that
\* at any other moment either.
C6_RejectSeesBoundedByConcurrency ==
  /\ rlLast.status = 429 => rlLast.preOldest[1] <= RaceRule.limit - 1 + NumProcs
  /\ \A b \in Buckets : zcard(bucket[b]) <= RaceRule.limit - 1 + NumProcs

C6_Witness ==
  /\ rlLast.status = 429
  /\ rlLast.preOldest[1] = RaceRule.limit - 1 + NumProcs
  /\ rlLast.preOldest[1] > RaceRule.limit + 1

\* what a check at second t of a rule with window w and limit l leaves in a
\* bucket holding zset, as a function of that bucket alone
OwnEffect(zset, w, l, t) ==
  IF zcard(zremrangebyscore(zset, 0, t - w)) >= l
  THEN zremrangebyscore(zset, 0, t - w)
  ELSE zadd(zremrangebyscore(zset, 0, t - w), t)

\* C20: the (ip, action) bucket and the (account, action) bucket of one action
\* are independent: a request leaves in each bucket it checks what that bucket's
\* own entries determine, admits or rejects each check by that bucket's own
\* count, and leaves every bucket it does not check as it was; in particular
\* a full ip bucket leaves the account bucket untouched, and a full account
\* bucket changes neither the ip check's outcome nor what it records.
C20_BucketsIndependent ==
  [][rlNow' = rlNow =>
      LET req == rlLast'
          ipB == bucketOf(rules[1], req.ip, req.email)
          acB == bucketOf(rules[2], req.ip, req.email)
      IN
      /\ ipB # acB
      /\ bucket'[ipB] = OwnEffect(bucket[ipB], rules[1].windowSec, rules[1].limit, rlNow)
      /\ req.outs[1] = "reject" <=>
            zcard(zremrangebyscore(bucket[ipB], 0, rlNow - rules[1].windowSec)) >= rules[1].limit
      /\ req.outs[1] = "reject" => req.outs[2] = "skipped" /\ bucket'[acB] = bucket[acB]
      /\ req.outs[1] = "admit" =>
            /\ bucket'[acB] = OwnEffect(bucket[acB], rules[2].windowSec, rules[2].limit, rlNow)
            /\ req.outs[2] = "reject" <=>
                  zcard(zremrangebyscore(bucket[acB], 0, rlNow - rules[2].windowSec)) >= rules[2].limit
      /\ \A b \in Buckets \ {ipB, acB} : bucket'[b] = bucket[b]
  ]_vars

\* the account bucket is full and the ip bucket has room: the ip check is admitted and recorded, the account check is rejected
C20_Witness ==
  /\ rlLast.outs = <<"admit", "reject">>
  /\ rules[2].limit >= 1
  /\ zcard(bucket[LastBucket(2)]) >= rules[2].limit
  /\ zcard(bucket[LastBucket(1)]) <= rules[1].limit
  /\ bucket[LastBucket(1)][rlLast.t] >= 1
  /\ rlNow = rlLast.t

\* the last rejected check has sent its Retry-After header
Reported == rlLast.status = 429 /\ rlLast.retryAfter # -1

Present(v) == v # Absent /\ v # ""

\* C8: for a POST, PUT, PATCH or DELETE request the middleware answers 403 iff a
\* session cookie is present and not (the CSRF cookie is present, the x-csrf-token
\* header is present and the two are equal); without a session cookie the
\* request always passes on to the next handler.
C8_RejectIffSessionAndNoMatch ==
  toUpperCase(csrfLast.method) \in Mutating =>
    /\ csrfLast.res.status = 403 <=>
         /\ Present(csrfLast.sessionCookie)
         /\ ~(/\ Present(csrfLast.csrf)
              /\ Present(csrfLast.header)
              /\ csrfLast.csrf = csrfLast.header)
    /\ csrfLast.res.next <=> csrfLast.res.status # 403
    /\ ~Present(csrfLast.sessionCookie) => csrfLast.res.next

C8_Witness ==
  /\ csrfLast.method = "DELETE"
  /\ csrfLast.sessionCookie = "s1"
  /\ csrfLast.csrf = "t1"
  /\ csrfLast.header = "t2"
  /\ csrfLast.res.status = 403

C9_WrongPasswordLooksLikeUnknownEmail ==
  (authLast.op = "login" /\ authLast.known /\ ~authLast.ok) =>
    LET unknown == loginDecision("nobody", authLast.pw) IN
    /\ authLast.status = unknown.status
    /\ authLast.body = unknown.body

\* C4: once resetPassword has returned 204 for a user, SessionGuard accepts no
\* session of that user that was opened on the pre-reset password, a session
\* whose login verified the password before the reset and was created after it
\* included.
C4_ResetRevokesOldPasswordSessions ==
  (last.op = "guard" /\ last.result = "accept") =>
    ~(cache[last.sid].userId \in resetReturned /\ sessPw[last.sid] = "old")

\* C21: revokeAll(subjectId) leaves the sessions of every other subject
\* untouched: the cache entry and the durable record of a session owned by
\* another subject are what they were, and such a session that was resolvable
\* before the call is resolvable after it, with and without a durable store.
C21_RevokeAllLeavesOthers ==
  [][last'.op = "revokeAll" =>
      \A s \in Sids :
        OwnerOf(s) # last'.uid =>
          /\ cache'[s] = cache[s]
          /\ durable'[s] = durable[s]
          /\ Resolvable(s) => Resolvable(s)'
  ]_vars

\* revokeAll removed a subject's sessions while another subject's session,
\* present in both stores, stays resolvable
C21_Witness ==
  /\ last.op = "revokeAll" /\ last.result = "ok" /\ last.had # {}
  /\ \E s \in Sids :
       /\ OwnerOf(s) \in Users \ {last.uid}
       /\ redisGet(cache, s).kind = "json" /\ durable[s].present
       /\ Resolvable(s)

\* C17 as stated: when the durable write fails during create, create still
\* succeeds and returns the session id.
C17_CreateSurvivesDurableFailure ==
  (last.op = "create" /\ last.fault = "db") => last.result = "ok"

\* C17: with a durable store the durable write is part of create: when it fails,
\* create fails after the cache entry is written, no session id is returned, and
\* the entry left behind is not resolvable.
C17_DurableWriteMandatory ==
  (hasPrisma /\ last.op = "create" /\ last.fault = "db") =>
    /\ last.result = "throw" /\ last.sid = NoSid
    /\ LiveEntry(nextSid - 1) /\ ~durable[nextSid - 1].present
    /\ ~Resolvable(nextSid - 1)

C17_Witness ==
  /\ hasPrisma /\ last.op = "create" /\ last.fault = "db" /\ last.result = "throw"
  /\ \E s \in Sids : Resolvable(s)

\* C16: with a durable store, once revokeAll(subject) has returned, called
\* directly or from resetPassword, no cache entry of a session the subject had
\* before the call remains.
C16_RevokeAllClearsCache ==
  /\ (hasPrisma /\ last.op = "revokeAll" /\ last.result = "ok") =>
       \A s \in last.had : cache[s].kind = "none"
  /\ (authLast.op = "resetPassword" /\ authLast.status = 204) =>
       \A s \in Sids : cache[s].kind # "none" => cache[s].userId # authLast.email

(***************************************************************************)
(* Claims on the tokens                                                    *)
(***************************************************************************)
\* C14: verification tokens and reset tokens are single-use: of the verifyEmail
\* calls (and of the resetPassword calls) that present the same token, in any
\* interleaving, at most one returns 204, and once one has, the token is used,
\* so that every later call on it returns 400 Invalid token.
C14_TokenSingleUse ==
  \A o \in TokOps, u \in Users :
    /\ tokOk[o][u] <= 1
    /\ tokOk[o][u] >= 1 => tokenOf(o, u) = "used"

(***************************************************************************)
(* Claims on the routes                                                    *)
(***************************************************************************)
\* the rule that rejected the last request
RejectingRule == rules[CHOOSE i \in 1..Len(rules) : rlLast.outs[i] = "reject"]

\* C15: on every route with a rule by 'account', requests made for different
\* accounts are counted in different buckets, and an account rule never rejects
\* a request of an account none of whose requests it has counted.
C15_AccountBucketsPerAccount ==
  /\ \A b \in Buckets : Cardinality(counted[b]) <= 1
  /\ (rlLast.status = 429 /\ RejectingRule.by = "account") => ~rlRoute.fresh

(***************************************************************************)
(* Claims on the roles guard                                               *)
(***************************************************************************)
\* the elements of a @Roles list
RangeOf(seq) == {seq[i] : i \in 1..Len(seq)}

\* C22: RolesGuard.canActivate returns true iff the required-role list is
\* empty, or a role store is available and an authenticated principal is
\* attached and at least one required role is among the principal's role
\* names; with no role store it denies every non-empty requirement.
C22_RolesGuardDecision ==
  [][userRole' = userRole =>
      LET req == rbacLast' IN
      /\ req.decided
      /\ req.result <=>
            \/ req.required = <<>>
            \/ /\ hasUserRole
               /\ req.userId \in Users
               /\ RangeOf(req.required) \cap (userRole[req.userId] \cap RoleNames) # {}
      /\ (~hasUserRole /\ req.required # <<>>) => ~req.result
  ]_vars

\* a principal holding one of two required roles is let through
C22_Witness ==
  /\ rbacLast.decided /\ rbacLast.result
  /\ rbacLast.required = <<"user", "admin">>
  /\ rbacLast.userId \in Users
  /\ userRole[rbacLast.userId] \cap RoleNames = {"admin"}

(***************************************************************************)
(* Claims on the whole calls of AuthService                                *)
(***************************************************************************)
\* the positions of the step name in the steps of the last call
StepsAt(name) == {i \in 1..Len(flowLast.steps) : flowLast.steps[i] = name}

\* C23: every login runs the password verification exactly once, before the
\* audit record, the session and the response, against the stored hash when
\* the credential record exists and against DUMMY_HASH otherwise; the call
\* ends with its return, so no path answers without having verified.
C23_LoginVerifiesOnce ==
  flowLast.op = "login" =>
    /\ Cardinality(StepsAt("verifyPassword")) = 1
    /\ \A i \in StepsAt("verifyPassword") :
         /\ i < Len(flowLast.steps)
         /\ flowLast.steps[i + 1] = (IF flowLast.known THEN "stored" ELSE "DUMMY_HASH")
         /\ \A j \in StepsAt("return") \cup StepsAt("audit.append") \cup StepsAt("sessions.create") : i < j
    /\ flowLast.steps[Len(flowLast.steps)] = "return"
    /\ flowLast.status \in {200, 401, 403}

\* a login for an address no user has: verified against DUMMY_HASH, answered 401
C23_Witness ==
  /\ flowLast.op = "login" /\ ~flowLast.known /\ flowLast.status = 401
  /\ StepsAt("DUMMY_HASH") # {} /\ StepsAt("passwordCredential.findUnique") = {}

\* what the call op on the given input does from the current state when the
\* audit sink works
WithWorkingSink(op, email, pw, mailFails) ==
  CASE op = "register" -> register(email, pw, FALSE)
    [] op = "login" -> login(email, pw, FALSE)
    [] op = "requestVerify" -> requestVerify(email, FALSE)
    [] op = "verifyEmail" -> verifyEmail(email, FALSE)
    [] op = "requestReset" -> requestReset(email, FALSE, mailFails)
    [] op = "resetPassword" -> resetPassword(email, FALSE)

\* C24: audit appends are best-effort: a call of register, login, verifyEmail,
\* requestReset, resetPassword or requestVerify made while the audit sink
\* fails answers with the status and body, and leaves the sessions and the
\* credentials, that the same call leaves with a working sink, and no audit
\* error reaches the caller.
C24_AuditFailureChangesNothing ==
  [][(isActive' = isActive /\ flowLast'.sinkFails) =>
      LET mailFailed == \E i \in DOMAIN flowLast'.steps :
                          flowLast'.steps[i] = "mailer.sendPasswordReset:failed"
          w == WithWorkingSink(flowLast'.op, flowLast'.email, flowLast'.pw, mailFailed)
      IN
      /\ flowLast'.status = w.status /\ flowLast'.body = w.body
      /\ flowLast'.status # 500
      /\ flowLast'.steps = w.steps /\ flowLast'.created = w.created
      /\ cache' = w.cache /\ durable' = w.durable
      /\ registered' = w.registered /\ password' = w.password
      /\ emailVerifiedAt' = w.emailVerifiedAt
      /\ verifyToken' = w.verifyToken /\ resetToken' = w.resetToken
  ]_vars

\* a login under a failing audit sink: nothing is recorded, the session is
\* created and the call answers 200
C24_Witness ==
  /\ flowLast.op = "login" /\ flowLast.sinkFails
  /\ StepsAt("audit.append") # {} /\ flowLast.logged = <<>>
  /\ flowLast.status = 200 /\ flowLast.created # NoSid
  /\ Resolvable(flowLast.created)

\* the sessions that exist: a cache entry or a durable record
Existing == {s \in Sids : redisGet(cache, s).kind # "none" \/ durable[s].present}

C26_OnlyLoginOrVerificationCreates ==
  flowLast.created # NoSid => flowLast.op \in {"login", "verifyEmail"}

\* C26: a call creates a session only when it is a login of an existing,
\* active user whose password verified (and whose email is verified unless
\* verification is disabled), a verifyEmail of a valid token while
\* verification is not disabled, or a register of a new address while
\* disableEmailVerification or sessionBeforeVerification is set.
C26_SessionCreatedOnlyBy ==
  [][nextSid' # nextSid =>
      LET f == flowLast'
          user == findUnique(normalize(f.email))
      IN
      /\ f.created = nextSid /\ nextSid' = nextSid + 1
      /\ \/ /\ f.op = "login" /\ f.status = 200
            /\ user # NoUser /\ isActive[user] /\ password[user] = f.pw
            /\ disableEmailVerification \/ user \in emailVerifiedAt
         \/ /\ f.op = "verifyEmail" /\ f.status = 204
            /\ ~disableEmailVerification
            /\ verifyToken[f.email] = "issued" /\ f.email \in emailVerifiedAt'
         \/ /\ f.op = "register" /\ f.status = 201
            /\ user = NoUser
            /\ disableEmailVerification \/ sessionBeforeVerification
  ]_vars

\* sessionBeforeVerification is set: register has opened a session for a user
\* whose email is not verified
C26_Witness ==
  /\ ~disableEmailVerification /\ sessionBeforeVerification
  /\ flowLast.op = "register" /\ flowLast.status = 201
  /\ flowLast.created # NoSid
  /\ OwnerOf(flowLast.created) \notin emailVerifiedAt

(***************************************************************************)
(* Claims about the request pipeline                                       *)
(***************************************************************************)
\* the position of the first run of a component in the trace, 0 when it has not run
PositionOf(name) ==
  IF \E i \in DOMAIN pipe.trace : pipe.trace[i] = name
  THEN CHOOSE i \in DOMAIN pipe.trace :
         pipe.trace[i] = name /\ \A j \in DOMAIN pipe.trace : pipe.trace[j] = name => i <= j
  ELSE 0

\* C31: on every route that declares a rate limit, neither the CSRF check
\* (of a mutating request with a session cookie) nor the session resolution
\* runs before the rate-limit check of the request has run.
C31_RateLimitFirst ==
  pipe.route \in RateLimited =>
    /\ (PositionOf("CsrfMiddleware") > 0 /\ pipe.csrfChecked) =>
          (PositionOf("RateLimitGuard") > 0
             /\ PositionOf("RateLimitGuard") < PositionOf("CsrfMiddleware"))
    /\ PositionOf("SessionGuard") > 0 =>
          (PositionOf("RateLimitGuard") > 0
             /\ PositionOf("RateLimitGuard") < PositionOf("SessionGuard"))

(***************************************************************************)
(* Claims about the answers and the audit trail of whole calls             *)
(***************************************************************************)
\* C32: requestReset answers 204 with no body, the same answer whether or
\* not the address belongs to a user and whether or not the mail or the
\* audit append succeeds.
C32_RequestResetAlways204 ==
  flowLast.op = "requestReset" => flowLast.status = 204 /\ flowLast.body = ""

\* requestReset has answered for an existing user while both the mail and
\* the audit append failed
C32_Witness ==
  /\ flowLast.op = "requestReset" /\ flowLast.known /\ flowLast.sinkFails
  /\ \E i \in DOMAIN flowLast.steps : flowLast.steps[i] = "mailer.sendPasswordReset:failed"
  /\ flowLast.logged = <<>>
  /\ flowLast.status = 204

\* the audit kind documented for the call that has just answered, "" when
\* the call is not a completed flow
documentedKind ==
  CASE flowLast.op = "register" /\ flowLast.status \in {201, 202} -> "REGISTER"
    [] flowLast.op = "login" /\ flowLast.status = 200 -> "LOGIN_SUCCESS"
    [] flowLast.op = "login" /\ flowLast.status = 401 -> "LOGIN_FAIL"
    [] flowLast.op = "login" /\ flowLast.status = 403 -> "LOGIN_FAIL_NOT_VERIFIED"
    [] flowLast.op = "logout" /\ flowLast.status = 204 -> "LOGOUT"
    [] flowLast.op = "requestVerify" /\ flowLast.status = 204 -> "VERIFY_SENT"
    [] flowLast.op = "verifyEmail" /\ flowLast.status = 204 -> "VERIFY_OK"
    [] flowLast.op = "requestReset" /\ flowLast.status = 204 /\ flowLast.known -> "RESET_REQ"
    [] flowLast.op = "resetPassword" /\ flowLast.status = 204 -> "RESET_OK"
    [] OTHER -> ""

\* C33: every completed flow appends its documented audit event: while the
\* audit sink works, the event documented for the call that has answered is
\* among the events the call appended.
C33_EveryFlowAudited ==
  (documentedKind # "" /\ ~flowLast.sinkFails) =>
     \E i \in DOMAIN flowLast.logged : flowLast.logged[i] = documentedKind

(***************************************************************************)
(* Claims about the guard racing a revocation                              *)
(***************************************************************************)
\* C34: once the durable deletion of a session by revokeAll or revoke has
\* committed, a guard whose durable read happens afterwards denies the
\* session, also while its cache entry is still present.
C34_DurableReadAfterCommitDenies ==
  [][(gd.pc = "tx" /\ gd'.pc = "done" /\ gd.sid \in committed) => gd'.result = "deny"]_vars

\* the guard found the cache entry, revokeAll then committed its deleteMany,
\* and the guard's durable read ran while the cache deletion was still pending
C34_Witness ==
  /\ gd.pc = "done" /\ gd.userId # NoUser
  /\ gd.afterCommit /\ gd.cachePresent
  /\ rv.pc = "del" /\ gd.sid \in rv.ids
  /\ isActive[gd.userId]
  /\ gd.result = "deny"

(***************************************************************************)
(* Claims about the expiry recorded in a session                           *)
(***************************************************************************)
\* C35: resolvePrincipal returns no principal for a session whose recorded
\* expiresAt is earlier than the current time, whatever delay occurs inside
\* create between computing expiresAt and writing the cache entry.
C35_NoPrincipalPastExpiresAt ==
  \A s \in Sids : Resolvable(s) => cache[s].life >= 0

(***************************************************************************)
(* Claims about what a rejected request leaves in the buckets              *)
(***************************************************************************)
\* the rule that rejected the request req, 0 when no rule did
RejectedAt(req) ==
  IF \E i \in DOMAIN req.outs : req.outs[i] = "reject"
  THEN CHOOSE i \in DOMAIN req.outs : req.outs[i] = "reject"
  ELSE 0

\* the same client: the same address and the same account bucket
SameClient(p, q) == p.ip = q.ip /\ toLowerCase(p.email) = toLowerCase(q.email)

C37_MalformedTreatedAsAbsent ==
  (last.op \in {"get", "revokeAll", "listForUser"} /\ last.fault = "none") =>
     /\ last.result = "ok"
     /\ last.op = "get" /\ redisGet(cache, last.sid).kind = "garbage" => last.uid = NoUser

\* C38: a request the rate limiter rejects consumes no budget: when the guard
\* answers 429, no bucket of any rule of the route has gained an entry.
C38_RejectedConsumesNoBudget ==
  [][rlLast'.status = 429 => \A b \in Buckets : \A t \in Times : bucket'[b][t] <= bucket[b][t]]_vars

(***************************************************************************)
(* Claims about the session routes                                         *)
(***************************************************************************)
\* C39: POST /sessions/:id/revoke revokes only sessions of the authenticated
\* caller: a call for a session id that another user owns leaves the cache
\* entry and the durable row of that session in place, and the session
\* stays resolvable.
C39_RevokesOnlyOwnSessions ==
  [][\A id \in Sids :
      (last'.op = "revokeRoute" /\ last'.result = "ok" /\ last'.sid = id
         /\ OwnerOf(id) # NoUser /\ OwnerOf(id) # last'.uid)
      => /\ cache'[id] = cache[id]
         /\ durable'[id] = durable[id]
         /\ Resolvable(id) => Resolvable(id)'
  ]_vars

(***************************************************************************)
(* Claims about the way out of an unverified account                       *)
(***************************************************************************)
\* nothing the user can call leads on: verify needs a token that is still
\* valid, request-verify needs a session and the user has none, login needs
\* a verified email
Stuck(u) ==
  /\ ~disableEmailVerification
  /\ u \in registered /\ u \notin emailVerifiedAt
  /\ verifyToken[u] # "issued"
  /\ SessionsOf(u) = {}

\* a user who is stuck stays stuck whatever is called afterwards
StuckForever == [][\A u \in Users : Stuck(u) => Stuck(u)']_vars

\* C40: with verification required and sessionBeforeVerification off, a
\* registered, active, unverified user can always still get verified and
\* obtain a session: in every reachable state the user holds a verification
\* token that verify accepts, or a session with which request-verify issues
\* a fresh one.
C40_UnverifiedUserCanRecover ==
  \A u \in Users :
    (~sessionBeforeVerification /\ isActive[u]) => ~Stuck(u)

====================================================================
